---- MODULE Spec2Model ----
(***************************************************************************)
(* HNDigest: the digest builder (src/src/digest_builder.rs,                *)
(* src/src/strategies.rs), the subscription lifecycle                      *)
(* (src/src/subscribe.rs, src/src/types.rs), the API and the notification  *)
(* handler (src/src/api/handlers.rs, src/src/unsubscribe.rs,               *)
(* src/src/bounce.rs) over the DynamoDB-backed storage                     *)
(* (src/src/storage/dynamo.rs).                                            *)
(*                                                                         *)
(* A DateTime<Utc> is a number of hours since an epoch.  A string built by *)
(* format!/Display is the tuple of its parts ("TOP_N#10" is                *)
(* <<"TOP_N", 10>>).  An Option is a sequence of at most one element:        *)
(* None is <<>> and Some(x) is <<x>>.                                      *)
(***************************************************************************)
EXTENDS Integers, Sequences, FiniteSets, TLC

None == <<>>
Some(x) == <<x>>
Unwrap(o) == o[1]

(***************************************************************************)
(* Bounds of the model.                                                    *)
(***************************************************************************)
\* longest candidate list handed to build_digest
MaxPosts == 3
\* number of build_digest calls in one behaviour
MaxBuilds == 2

HoursPerDay == 24

(***************************************************************************)
(* Inputs.                                                                 *)
(***************************************************************************)
\* types.rs Post, reduced to the two fields the builder reads.  "c" is
\* fetched with two different scores (a post's points change from one
\* day's fetch to the next); "b" and "c" can tie.
Post(id, pts) == [object_id |-> id, points |-> pts]

PostUniverse ==
    { Post("a", 500), Post("b", 200), Post("c", 200), Post("c", 100) }

\* main.rs:91 builds the candidate list from the values of a map keyed by
\* object_id, so no two candidates share an object_id.
UniqueIds(s) ==
    \A i, j \in 1..Len(s) : s[i].object_id = s[j].object_id => i = j

CandidateLists ==
    { s \in UNION { [1..n -> PostUniverse] : n \in 0..MaxPosts } : UniqueIds(s) }

TopN(n) == [kind |-> "TopN", value |-> n]
OverPointThreshold(t) == [kind |-> "OverPointThreshold", value |-> t]

\* strategies handed to build_digest (it takes any DigestStrategy value,
\* as in its tests): TopN cuts lists of two and three candidates, and the
\* threshold 200 separates, and is met by, the scores of PostUniverse
BuildStrategies == { TopN(1), TopN(2), OverPointThreshold(200) }

\* the calendar days digests are built for, and the hour of the day the
\* batch run stamps its date with (main.rs:66-69)
BuildDays == { 0, 1, 2 }
RunHours == { 6 }

BuildDates == { d * HoursPerDay + h : d \in BuildDays, h \in RunHours }

(***************************************************************************)
(* State.                                                                  *)
(***************************************************************************)
VARIABLES
    digests,    \* the DIGEST#<strategy> items of the table
    build,      \* the build_digest call in progress or last returned
    nbuilds,    \* build_digest calls started so far
    inOrder,    \* history: no call so far was for a day earlier than a
                \* day already stored for the call's strategy
    subscribers,    \* the SUBSCRIBER items of the table
    pending,        \* the PENDING_SUBSCRIPTION items of the table
    clock,          \* ticks of the wall clock read by Utc::now()
    issued,         \* tokens handed out by Token::generate so far
    verify,         \* the verify_subscription call that has just returned
    verifyPrev,     \* the verify_subscription call right before it, if it
                    \* returned a Subscriber
    apiCall,        \* the API or notification call that has just returned
    verified,       \* history: the lower-cased emails whose stored pending
                    \* token was presented to verify_subscription
    scan,           \* the get_all_subscribers call in progress or returned
    lookup,         \* the get_subscriber_by_unsubscribe_token call that has
                    \* just returned
    batch,          \* the run of the scheduled handler in progress or last
                    \* returned
    conv,           \* the conversion (formatting, parsing, encoding) that
                    \* has just returned
    running         \* the POST /api/subscribe and the remove_subscriber call
                    \* in progress, each between two of its Storage calls

digestVars == <<digests, build, nbuilds, inOrder>>

subVars == <<subscribers, pending, clock, issued, verify, verifyPrev>>

apiVars == <<apiCall, verified>>

queryVars == <<scan, lookup>>

vars == <<digests, build, nbuilds, inOrder,
          subscribers, pending, clock, issued, verify, verifyPrev,
          apiCall, verified, scan, lookup, batch, conv, running>>

(***************************************************************************)
(* strategies.rs                                                           *)
(***************************************************************************)
\* impl Display for DigestStrategy
to_string(strategy) ==
    IF strategy.kind = "TopN"
    THEN <<"TOP_N", strategy.value>>
    ELSE <<"POINT_THRESHOLD", strategy.value>>

Take(s, n) == SubSeq(s, 1, IF Len(s) < n THEN Len(s) ELSE n)

\* a plausible slip: the posts before the n-th are taken
select_below_n(strategy, posts) ==
    IF strategy.kind = "TopN"
    THEN Take(posts, strategy.value - 1)
    ELSE SelectSeq(posts, LAMBDA p : p.points >= strategy.value)

\* a plausible slip: the threshold taken as exclusive
select_exclusive(strategy, posts) ==
    IF strategy.kind = "TopN"
    THEN Take(posts, strategy.value)
    ELSE SelectSeq(posts, LAMBDA p : p.points > strategy.value)

\* DigestStrategy::select
select(strategy, posts) ==
    IF strategy.kind = "TopN"
    THEN Take(posts, strategy.value)
    ELSE SelectSeq(posts, LAMBDA p : p.points >= strategy.value)

(***************************************************************************)
(* storage/mod.rs, storage/dynamo.rs                                       *)
(***************************************************************************)
\* datestamp: date.format("%F"), the calendar day of the instant
datestamp(date) == date \div HoursPerDay

\* a plausible slip: one partition for the digests of every strategy
digest_pk_shared(type_) == <<"DIGEST">>

digest_pk(type_) == <<"DIGEST">> \o type_

\* LambdaStorage::fetch_digest: get_item by (PK, SK)
fetch_digest(table, type_, date) ==
    LET found == { it \in table : it.PK = digest_pk(type_) /\ it.SK = datestamp(date) }
    IN  IF found = {} THEN None ELSE Some((CHOOSE it \in found : TRUE).posts)

\* a plausible slip: nothing is written for an empty digest
save_digest_unless_empty(table, type_, date, posts) ==
    IF posts = <<>>
    THEN table
    ELSE { it \in table : ~(it.PK = digest_pk(type_) /\ it.SK = datestamp(date)) }
             \cup { [PK |-> digest_pk(type_), SK |-> datestamp(date), posts |-> posts] }

\* LambdaStorage::save_digest: put_item replaces the item of the same key
save_digest(table, type_, date, posts) ==
    { it \in table : ~(it.PK = digest_pk(type_) /\ it.SK = datestamp(date)) }
        \cup { [PK |-> digest_pk(type_), SK |-> datestamp(date), posts |-> posts] }

(***************************************************************************)
(* digest_builder.rs                                                       *)
(***************************************************************************)
Ids(posts) == { posts[i].object_id : i \in 1..Len(posts) }

Elems(posts) == { posts[i] : i \in 1..Len(posts) }

\* a plausible slip: sent posts recognised by the whole record, not the id
filter_sent_posts_by_value(all_posts, yesterday_digest) ==
    IF yesterday_digest = None
    THEN all_posts
    ELSE SelectSeq(all_posts, LAMBDA p : p \notin Elems(Unwrap(yesterday_digest)))

filter_sent_posts(all_posts, yesterday_digest) ==
    IF yesterday_digest = None
    THEN all_posts
    ELSE LET sent_ids == Ids(Unwrap(yesterday_digest))
         IN  SelectSeq(all_posts, LAMBDA p : p.object_id \notin sent_ids)

\* Vec::sort_by is a stable sort; the comparator b.points.cmp(&a.points)
\* orders by points, descending.  Each element goes behind the elements
\* already placed whose points are not smaller.
\* a plausible slip: the comparator a.points.cmp(&b.points), ascending
InsertByPoints_ascending(sorted, p) ==
    LET k == Cardinality({ i \in 1..Len(sorted) : sorted[i].points <= p.points })
    IN  SubSeq(sorted, 1, k) \o <<p>> \o SubSeq(sorted, k + 1, Len(sorted))

\* a plausible slip: a sort that does not keep equal elements in order
InsertByPoints_unstable(sorted, p) ==
    LET k == Cardinality({ i \in 1..Len(sorted) : sorted[i].points > p.points })
    IN  SubSeq(sorted, 1, k) \o <<p>> \o SubSeq(sorted, k + 1, Len(sorted))

InsertByPoints(sorted, p) ==
    LET k == Cardinality({ i \in 1..Len(sorted) : sorted[i].points >= p.points })
    IN  SubSeq(sorted, 1, k) \o <<p>> \o SubSeq(sorted, k + 1, Len(sorted))

\* the elements of s placed one after another, in their order, into a
\* sorted sequence; a long s is placed half by half, and the sequence
\* placed so far is evaluated first, so that the nesting of the evaluation
\* stays shallow for a hundred posts
RECURSIVE InsertAll(_, _)
InsertAll(sorted, s) ==
    IF Len(sorted) >= 0 /\ s = <<>> THEN sorted
    ELSE IF Len(s) = 1 THEN InsertByPoints(sorted, s[1])
    ELSE LET half == Len(s) \div 2
         IN  InsertAll(InsertAll(sorted, SubSeq(s, 1, half)), SubSeq(s, half + 1, Len(s)))

sort_by_points(s) == InsertAll(<<>>, s)

\* a plausible slip: the digest excluded is the one of two days before
Yesterday_two_days(date) == date - 2 * HoursPerDay

\* a plausible slip: the day is not subtracted
Yesterday_same_day(date) == date

Yesterday(date) == date - HoursPerDay

\* a digest of the strategy is stored for a day after the day of date
LaterDayStored(strategy, date) ==
    \E it \in digests :
        it.PK = digest_pk(to_string(strategy)) /\ it.SK > datestamp(date)

\* build_digest up to the first await: the call and the read of the
\* prior day's digest (lines 24-26)
BuildFetch(strategy, date, posts) ==
    /\ build.pc \in {"idle", "returned"}
    /\ nbuilds < MaxBuilds
    /\ build' = [ pc               |-> "fetched",
                  strategy         |-> strategy,
                  date             |-> date,
                  posts            |-> posts,
                  yesterday_digest |-> fetch_digest(digests, to_string(strategy), Yesterday(date)),
                  selected_posts   |-> None,
                  ret              |-> None,
                  \* history: what was stored under (strategy, date) at the call
                  overwritten      |-> fetch_digest(digests, to_string(strategy), date) ]
    /\ nbuilds' = nbuilds + 1
    /\ inOrder' = (inOrder /\ ~LaterDayStored(strategy, date))
    /\ UNCHANGED <<digests, subVars, apiVars, queryVars, batch, conv, running>>

\* build_digest lines 28-35: filter, sort, select, save
BuildSave ==
    /\ build.pc = "fetched"
    /\ LET unsent_posts   == sort_by_points(filter_sent_posts(build.posts, build.yesterday_digest))
           selected_posts == select(build.strategy, unsent_posts)
       IN  /\ digests' = save_digest(digests, to_string(build.strategy), build.date, selected_posts)
           /\ build' = [build EXCEPT !.pc = "saved", !.selected_posts = Some(selected_posts)]
    /\ UNCHANGED <<nbuilds, inOrder, subVars, apiVars, queryVars, batch, conv, running>>

\* build_digest line 37: Ok(selected_posts)
BuildReturn ==
    /\ build.pc = "saved"
    /\ build' = [build EXCEPT !.pc = "returned", !.ret = build.selected_posts]
    /\ UNCHANGED <<digests, nbuilds, inOrder, subVars, apiVars, queryVars, batch, conv, running>>

(***************************************************************************)
(* Subscription lifecycle: bounds and inputs.                              *)
(***************************************************************************)
\* tokens Token::generate hands out in one behaviour
MaxTokens == 3
\* ticks of the wall clock in one behaviour
MaxTicks == 3

\* PendingSubscription::new: Duration::hours(24)
PENDING_TTL_HOURS == 24

\* the clock advances by half a day per tick
HoursPerTick == HoursPerDay \div 2

Now == clock * HoursPerTick

\* strategies.rs:6-7
TOP_N_VALUES == { 10, 20, 50 }
POINT_THRESHOLD_VALUES == { 500, 250, 100 }

\* EmailAddress values handed to the operations; two of them differ only
\* in letter case
EmailInputs == { "a@x.io", "A@x.io", "b@x.io" }

\* str::to_lowercase on the inputs
to_lowercase(email) == IF email = "A@x.io" THEN "a@x.io" ELSE email

\* strategies a subscription is requested with (configured ones: the
\* handlers parse the request's strategy with from_str)
SubscribeStrategies == { TopN(10), OverPointThreshold(500) }

\* Token values presented to verify_subscription: every token
\* Token::generate can hand out, and 0, a token it never hands out
TokenInputs == 0..MaxTokens

\* Result<T, E>
Ok(x) == [ok |-> TRUE, val |-> x]
Err(msg) == [ok |-> FALSE, val |-> msg]

\* impl FromStr for DigestStrategy
from_str(s) ==
    IF s[1] = "TOP_N"
    THEN IF s[2] \in TOP_N_VALUES THEN Ok(TopN(s[2])) ELSE Err("Invalid TOP_N value")
    ELSE IF s[1] = "POINT_THRESHOLD"
         THEN IF s[2] \in POINT_THRESHOLD_VALUES
              THEN Ok(OverPointThreshold(s[2]))
              ELSE Err("Invalid POINT_THRESHOLD value")
         ELSE Err("Invalid strategy format")

(***************************************************************************)
(* types.rs                                                                *)
(***************************************************************************)
\* a plausible slip: a token that is not random
generate_repeating(n_issued) == 1

\* Token::generate: a version-4 UUID, taken to be one never handed out
\* before; the n-th token generated is n
generate(n_issued) == n_issued + 1

\* Subscriber::new
Subscriber_new(email, strategy, now, n_issued) ==
    [ email             |-> email,
      strategy          |-> strategy,
      subscribed_at     |-> now,
      unsubscribe_token |-> generate(n_issued) ]

\* PendingSubscription::new
PendingSubscription_new(email, strategy, now, n_issued) ==
    [ email      |-> email,
      token      |-> generate(n_issued),
      strategy   |-> strategy,
      created_at |-> now,
      expires_at |-> now + PENDING_TTL_HOURS ]

(***************************************************************************)
(* storage/dynamo.rs: subscribers and pending subscriptions.  Timestamps   *)
(* are whole hours, which to_rfc3339/parse and timestamp/from_timestamp    *)
(* carry over unchanged.                                                   *)
(***************************************************************************)
\* a plausible slip: the item replaced is the one holding the same token
upsert_subscriber_by_token(table, subscriber) ==
    { it \in table : it.unsubscribe_token # subscriber.unsubscribe_token }
        \cup { [ PK                |-> "SUBSCRIBER",
                 SK                |-> to_lowercase(subscriber.email),
                 email             |-> to_lowercase(subscriber.email),
                 strategy          |-> to_string(subscriber.strategy),
                 subscribed_at     |-> subscriber.subscribed_at,
                 unsubscribe_token |-> subscriber.unsubscribe_token ] }

\* LambdaStorage::upsert_subscriber: put_item replaces the item of the
\* same (PK, SK)
upsert_subscriber(table, subscriber) ==
    { it \in table : it.SK # to_lowercase(subscriber.email) }
        \cup { [ PK                |-> "SUBSCRIBER",
                 SK                |-> to_lowercase(subscriber.email),
                 email             |-> to_lowercase(subscriber.email),
                 strategy          |-> to_string(subscriber.strategy),
                 subscribed_at     |-> subscriber.subscribed_at,
                 unsubscribe_token |-> subscriber.unsubscribe_token ] }

\* a plausible slip: the item is added without replacing the one stored
\* for the email
upsert_pending_subscription_append(table, p) ==
    table \cup { [ PK         |-> "PENDING_SUBSCRIPTION",
                   SK         |-> to_lowercase(p.email),
                   token      |-> p.token,
                   email      |-> to_lowercase(p.email),
                   strategy   |-> to_string(p.strategy),
                   created_at |-> p.created_at,
                   expires_at |-> p.expires_at ] }

\* LambdaStorage::upsert_pending_subscription
upsert_pending_subscription(table, p) ==
    { it \in table : it.SK # to_lowercase(p.email) }
        \cup { [ PK         |-> "PENDING_SUBSCRIPTION",
                 SK         |-> to_lowercase(p.email),
                 token      |-> p.token,
                 email      |-> to_lowercase(p.email),
                 strategy   |-> to_string(p.strategy),
                 created_at |-> p.created_at,
                 expires_at |-> p.expires_at ] }

\* the texts of the model that are no email address
NotEmails == { "not-an-email", "" }

\* EmailAddress::from_str
EmailAddress_from_str(s) ==
    IF s \in NotEmails THEN Err("Invalid email address") ELSE Ok(s)

\* a plausible slip: every string is taken for a token
Token_from_str_any(s) ==
    IF s = <<>> THEN Ok(0) ELSE Ok(s[1])

\* Token::from_str
Token_from_str(s) ==
    IF s = <<>> THEN Err("token cannot be empty") ELSE Ok(s[1])

\* the text of a stored token attribute: 0 stands for the empty string
TokenText(t) == IF t = 0 THEN <<>> ELSE <<t>>

\* str::parse::<DateTime<Utc>> on a stored text: a text that is no
\* timestamp is written as a negative number
DateTime_from_str(s) ==
    IF s < 0 THEN Err("Invalid subscribed_at timestamp") ELSE Ok(s)

\* item.get(name).and_then(|v| v.as_s().ok()): the attribute, when the
\* item has it as a string
get(item, name) == IF name \in DOMAIN item THEN Some(item[name]) ELSE None

\* a plausible slip: a record whose strategy does not parse gets the
\* first configured strategy
subscriber_from_item_defaulting(item) ==
    LET email_str         == get(item, "email")
        strategy_str      == get(item, "strategy")
        subscribed_at     == get(item, "subscribed_at")
        unsubscribe_token == get(item, "unsubscribe_token")
    IN  IF email_str = None THEN Err("Missing email field")
        ELSE IF ~EmailAddress_from_str(Unwrap(email_str)).ok
        THEN Err("Invalid email in database")
        ELSE IF subscribed_at = None THEN Err("Missing subscribed_at field")
        ELSE IF ~DateTime_from_str(Unwrap(subscribed_at)).ok
        THEN Err("Invalid subscribed_at timestamp")
        ELSE IF unsubscribe_token = None THEN Err("Missing unsubscribe_token field")
        ELSE IF ~Token_from_str(TokenText(Unwrap(unsubscribe_token))).ok
        THEN Err("Invalid unsubscribe_token")
        ELSE Ok([ email             |-> EmailAddress_from_str(Unwrap(email_str)).val,
                  strategy          |->
                      IF strategy_str # None /\ from_str(Unwrap(strategy_str)).ok
                      THEN from_str(Unwrap(strategy_str)).val
                      ELSE TopN(10),
                  subscribed_at     |-> DateTime_from_str(Unwrap(subscribed_at)).val,
                  unsubscribe_token |->
                      Token_from_str(TokenText(Unwrap(unsubscribe_token))).val ])

\* subscriber_from_item
subscriber_from_item(item) ==
    LET email_str         == get(item, "email")
        strategy_str      == get(item, "strategy")
        subscribed_at     == get(item, "subscribed_at")
        unsubscribe_token == get(item, "unsubscribe_token")
    IN  IF email_str = None THEN Err("Missing email field")
        ELSE IF ~EmailAddress_from_str(Unwrap(email_str)).ok
        THEN Err("Invalid email in database")
        ELSE IF strategy_str = None THEN Err("Missing strategy field")
        ELSE IF ~from_str(Unwrap(strategy_str)).ok THEN Err("Invalid strategy value")
        ELSE IF subscribed_at = None THEN Err("Missing subscribed_at field")
        ELSE IF ~DateTime_from_str(Unwrap(subscribed_at)).ok
        THEN Err("Invalid subscribed_at timestamp")
        ELSE IF unsubscribe_token = None THEN Err("Missing unsubscribe_token field")
        ELSE IF ~Token_from_str(TokenText(Unwrap(unsubscribe_token))).ok
        THEN Err("Invalid unsubscribe_token")
        ELSE Ok([ email             |-> EmailAddress_from_str(Unwrap(email_str)).val,
                  strategy          |-> from_str(Unwrap(strategy_str)).val,
                  subscribed_at     |-> DateTime_from_str(Unwrap(subscribed_at)).val,
                  unsubscribe_token |->
                      Token_from_str(TokenText(Unwrap(unsubscribe_token))).val ])

\* pending_subscription_from_item
pending_subscription_from_item(item) ==
    LET strategy == from_str(item.strategy)
    IN  IF ~strategy.ok THEN Err("Invalid strategy value")
        ELSE Ok([ token      |-> item.token,
                  email      |-> item.email,
                  strategy   |-> strategy.val,
                  created_at |-> item.created_at,
                  expires_at |-> item.expires_at ])

\* Option<Result<T>>::transpose
transpose(opt) ==
    IF opt = None THEN Ok(None)
    ELSE IF Unwrap(opt).ok THEN Ok(Some(Unwrap(opt).val)) ELSE Unwrap(opt)

\* get_item by (PK, SK): the item of that key, if any
get_item(table, sk) ==
    LET found == { it \in table : it.SK = sk }
    IN  IF found = {} THEN None ELSE Some(CHOOSE it \in found : TRUE)

\* LambdaStorage::get_pending_subscription
get_pending_subscription(table, email) ==
    LET item == get_item(table, to_lowercase(email))
    IN  transpose(IF item = None THEN None
                  ELSE Some(pending_subscription_from_item(Unwrap(item))))

\* LambdaStorage::get_subscriber_by_email
get_subscriber_by_email(table, email) ==
    LET item == get_item(table, to_lowercase(email))
    IN  transpose(IF item = None THEN None
                  ELSE Some(subscriber_from_item(Unwrap(item))))

(***************************************************************************)
(* subscribe.rs                                                            *)
(***************************************************************************)
NoCall == [ pc |-> "idle" ]

\* create_pending_subscription
CreatePending(email, strategy) ==
    /\ issued < MaxTokens
    /\ pending' = upsert_pending_subscription(
                      pending, PendingSubscription_new(email, strategy, Now, issued))
    /\ issued' = issued + 1
    /\ verify' = NoCall
    /\ verifyPrev' = NoCall
    /\ UNCHANGED <<subscribers, clock, digestVars, apiVars, queryVars, batch, conv, running>>

\* a plausible slip: the presented token is not compared
TokenMismatch_never(p, token) == FALSE

\* verify_subscription line 70: &pending.token != token
TokenMismatch(p, token) == p.token # token

\* verify_subscription: the value returned and the subscribers table it
\* leaves, with the number of tokens it generated
verify_subscription(subs, pend, email, token, now, n_issued) ==
    LET found == get_pending_subscription(pend, email)
    IN  IF ~found.ok
        THEN [ ret |-> found, subscribers |-> subs, generated |-> 0 ]
        ELSE IF found.val = None
        THEN [ ret |-> Ok(None), subscribers |-> subs, generated |-> 0 ]
        ELSE IF TokenMismatch(Unwrap(found.val), token)
        THEN [ ret |-> Ok(None), subscribers |-> subs, generated |-> 0 ]
        ELSE LET p          == Unwrap(found.val)
                 subscriber == Subscriber_new(p.email, p.strategy, now, n_issued)
             IN  [ ret         |-> Ok(Some(subscriber)),
                   subscribers |-> upsert_subscriber(subs, subscriber),
                   generated   |-> 1 ]

Verify(email, token) ==
    LET out == verify_subscription(subscribers, pending, email, token, Now, issued)
    IN  /\ issued + out.generated <= MaxTokens
        /\ subscribers' = out.subscribers
        /\ issued' = issued + out.generated
        /\ verify' = [ pc      |-> "returned",
                       email   |-> email,
                       token   |-> token,
                       at      |-> Now,
                       \* history: the pending item of the email at the call
                       pending |-> get_item(pending, to_lowercase(email)),
                       ret     |-> out.ret ]
        /\ verifyPrev' = IF verify.pc = "returned" /\ verify.ret.ok /\ verify.ret.val # None
                         THEN verify
                         ELSE NoCall
        /\ UNCHANGED <<pending, clock, digestVars, apiVars, queryVars, batch, conv, running>>

\* the wall clock advances
Tick ==
    /\ clock < MaxTicks
    /\ clock' = clock + 1
    /\ verify' = NoCall
    /\ verifyPrev' = NoCall
    /\ UNCHANGED <<subscribers, pending, issued, digestVars, apiVars, queryVars, batch, conv, running>>

\* DynamoDB's time-to-live on expires_at (dynamo.rs:226): the backend
\* deletes a pending item at some moment after its expiry
TtlReclaim(item) ==
    /\ item \in pending
    /\ item.expires_at < Now
    /\ pending' = pending \ { item }
    /\ verify' = NoCall
    /\ verifyPrev' = NoCall
    /\ UNCHANGED <<subscribers, clock, issued, digestVars, apiVars, queryVars, batch, conv, running>>

(***************************************************************************)
(* The API (api/handlers.rs), unsubscribe.rs and bounce.rs: bounds and     *)
(* inputs.                                                                 *)
(***************************************************************************)
\* tokens Token::generate hands out in one behaviour of the API
MaxApiTokens == 4
\* ticks of the wall clock in one behaviour of the API
MaxApiTicks == 1

NoApiCall == [ op |-> "idle" ]

\* no handler is between two of its Storage calls
NoRunning == [ subscribe |-> [ pc |-> "idle" ], remove |-> [ pc |-> "idle" ] ]

\* no run of the scheduled handler yet
NoBatch ==
    [ phase               |-> "idle",
      date                |-> 0,
      posts               |-> <<>>,
      refused             |-> {},
      tasks               |-> << >>,
      digests_by_strategy |-> << >>,
      queue               |-> <<>>,
      in_flight           |-> {},
      attempted           |-> {},
      send_results        |-> {},
      ret                 |-> <<>>,
      before              |-> {} ]

\* SubscribeRequest
SubscribeRequest(email, strategy, website, turnstile_token) ==
    [ email           |-> email,
      strategy        |-> strategy,
      website         |-> website,
      turnstile_token |-> turnstile_token ]

\* Captcha::verify and Mailer::send_email are collaborators: their
\* outcome is an input of the call
CaptchaPass == Ok(TRUE)
CaptchaFail == Ok(FALSE)
CaptchaError == Err("Captcha API request failed")
MailerOk == Ok(<<>>)
MailerError == Err("Failed to send email")

\* the subscribe requests with the outcomes of the collaborators: every
\* well-formed request with a passing captcha and a mailer that succeeds
\* or fails, and one request for each way of being turned down
SubscribeCalls ==
    { [ req     |-> SubscribeRequest(e, to_string(st), "", "tok"),
        captcha |-> CaptchaPass,
        mailer  |-> m ] :
          e \in EmailInputs, st \in SubscribeStrategies, m \in { MailerOk, MailerError } }
    \cup
    { [ req |-> r, captcha |-> c, mailer |-> MailerOk ] :
          r \in { SubscribeRequest("a@x.io", <<"TOP_N", 10>>, "http://spam.com", "tok"),
                  SubscribeRequest("a@x.io", <<"TOP_N", 7>>, "", "tok"),
                  SubscribeRequest("not-an-email", <<"TOP_N", 10>>, "", "tok"),
                  SubscribeRequest("a@x.io", <<"TOP_N", 10>>, "", "") },
          c \in { CaptchaPass } }
    \cup
    { [ req     |-> SubscribeRequest("a@x.io", <<"TOP_N", 10>>, "", "tok"),
        captcha |-> c,
        mailer  |-> MailerOk ] : c \in { CaptchaFail, CaptchaError } }

\* the requests and addresses of the behaviours in which the clock
\* advances: the well-formed requests of two addresses, with the
\* collaborators succeeding
UpdateEmails == { "A@x.io", "b@x.io" }

UpdateCalls ==
    { c \in SubscribeCalls :
          /\ c.req.email \in UpdateEmails
          /\ c.req.website = ""
          /\ c.req.turnstile_token # ""
          /\ from_str(c.req.strategy).ok
          /\ c.captcha = CaptchaPass
          /\ c.mailer = MailerOk }

\* Token values presented to the API: every token Token::generate can hand
\* out, and 0, a token it never hands out
ApiTokenInputs == 0..MaxApiTokens

\* SesNotification
SesNotification(event_type, bounce, complaint) ==
    [ event_type |-> event_type, bounce |-> bounce, complaint |-> complaint ]

RecipientLists ==
    { <<"A@x.io">>, <<"b@x.io", "not-an-email">>, <<"not-an-email", "a@x.io", "b@x.io">> }

Notifications ==
    { SesNotification("Bounce",
          Some([bounce_type |-> "Permanent", bounced_recipients |-> rl]), None) :
          rl \in RecipientLists }
    \cup
    { SesNotification("Complaint", None, Some([complained_recipients |-> rl])) :
          rl \in RecipientLists }
    \cup
    { SesNotification("Bounce",
          Some([bounce_type |-> "Transient", bounced_recipients |-> <<"A@x.io">>]), None),
      SesNotification("Bounce", None, None),
      SesNotification("Complaint", None, None),
      SesNotification("Delivery", None, None) }

(***************************************************************************)
(* storage/dynamo.rs: removal and lookup by token.                         *)
(***************************************************************************)
\* a plausible slip: the key is the address as given
storage_remove_subscriber_as_given(table, email) ==
    { it \in table : it.SK # email }

\* LambdaStorage::remove_subscriber: delete_item by (PK, SK)
storage_remove_subscriber(table, email) ==
    { it \in table : it.SK # to_lowercase(email) }

\* a plausible slip: one of the items holding the token is returned
get_subscriber_by_unsubscribe_token_first(table, token) ==
    LET items == { it \in table : /\ "unsubscribe_token" \in DOMAIN it
                                    /\ it.unsubscribe_token = token }
    IN  IF items = {} THEN Ok(None)
        ELSE transpose(Some(subscriber_from_item(CHOOSE it \in items : TRUE)))

\* LambdaStorage::get_subscriber_by_unsubscribe_token: the query on the
\* token index and the match on the number of items
get_subscriber_by_unsubscribe_token(table, token) ==
    LET items == { it \in table : /\ "unsubscribe_token" \in DOMAIN it
                                    /\ it.unsubscribe_token = token }
    IN  IF Cardinality(items) = 0 THEN Ok(None)
        ELSE IF Cardinality(items) = 1
        THEN transpose(Some(subscriber_from_item(CHOOSE it \in items : TRUE)))
        ELSE Err("Data integrity error: subscribers share token; tokens must be unique.")

(***************************************************************************)
(* subscribe.rs, unsubscribe.rs, bounce.rs                                 *)
(***************************************************************************)
\* create_pending_subscription: the value returned and the pending table
\* it leaves
create_pending_subscription(pend, email, strategy, now, n_issued) ==
    LET p == PendingSubscription_new(email, strategy, now, n_issued)
    IN  [ ret |-> Ok(p), pending |-> upsert_pending_subscription(pend, p) ]

\* a plausible slip: subscribed_at is moved on with the update
update_subscription_strategy_resubscribed(subs, existing, new_strategy) ==
    LET old_strategy == existing.strategy
        updated      == [ existing EXCEPT !.strategy = new_strategy,
                                          !.subscribed_at = existing.subscribed_at + HoursPerTick ]
    IN  [ ret |-> Ok(old_strategy), subscribers |-> upsert_subscriber(subs, updated) ]

\* update_subscription_strategy: the value returned and the subscribers
\* table it leaves
update_subscription_strategy(subs, existing, new_strategy) ==
    LET old_strategy == existing.strategy
        updated      == [ existing EXCEPT !.strategy = new_strategy ]
    IN  [ ret |-> Ok(old_strategy), subscribers |-> upsert_subscriber(subs, updated) ]

\* a plausible slip: every subscriber is removed once the token is found
remove_subscriber_all(subs, token) ==
    LET found == get_subscriber_by_unsubscribe_token(subs, token)
    IN  IF ~found.ok THEN [ ret |-> found, subscribers |-> subs ]
        ELSE IF found.val = None THEN [ ret |-> Ok(FALSE), subscribers |-> subs ]
        ELSE [ ret |-> Ok(TRUE), subscribers |-> {} ]

\* unsubscribe.rs remove_subscriber
remove_subscriber(subs, token) ==
    LET found == get_subscriber_by_unsubscribe_token(subs, token)
    IN  IF ~found.ok THEN [ ret |-> found, subscribers |-> subs ]
        ELSE IF found.val = None THEN [ ret |-> Ok(FALSE), subscribers |-> subs ]
        ELSE [ ret         |-> Ok(TRUE),
               subscribers |-> storage_remove_subscriber(subs, Unwrap(found.val).email) ]

\* the Subscriber keys whose delete_item fails while one event is handled;
\* NoFailure: the storage answers every call
NoFailure == {}

FailingKeys == SUBSET { "a@x.io", "b@x.io" }

\* LambdaStorage::remove_subscriber with its outcome: a delete_item that
\* fails returns the error and deletes nothing
try_remove_subscriber(table, email, failing) ==
    IF to_lowercase(email) \in failing
    THEN [ ret |-> Err("Failed to remove subscriber"), table |-> table ]
    ELSE [ ret |-> Ok(<<>>), table |-> storage_remove_subscriber(table, email) ]

\* bounce.rs remove_subscriber: a string that is not an address is skipped,
\* and the error of a removal that fails is logged, not returned
bounce_remove_subscriber(subs, email_str, failing) ==
    LET email == EmailAddress_from_str(email_str)
    IN  IF ~email.ok THEN subs ELSE try_remove_subscriber(subs, email.val, failing).table

RECURSIVE remove_recipients(_, _, _)

\* a plausible slip: only the first recipient of the list is removed
remove_recipients_first(subs, recipients, failing) ==
    IF recipients = <<>> THEN subs
    ELSE bounce_remove_subscriber(subs, Head(recipients), failing)

\* a plausible slip: the loop stops at the first recipient that is not
\* removed (an invalid address or a failed removal)
remove_recipients_until_error(subs, recipients, failing) ==
    IF recipients = <<>> THEN subs
    ELSE LET email == EmailAddress_from_str(Head(recipients))
         IN  IF ~email.ok \/ ~try_remove_subscriber(subs, email.val, failing).ret.ok
             THEN subs
             ELSE remove_recipients(bounce_remove_subscriber(subs, Head(recipients), failing),
                                    Tail(recipients), failing)

\* the for loops of handle_notification over the recipients
remove_recipients(subs, recipients, failing) ==
    IF recipients = <<>> THEN subs
    ELSE remove_recipients(bounce_remove_subscriber(subs, Head(recipients), failing),
                           Tail(recipients), failing)

\* a plausible slip: every bounce removes, whatever its type
handle_notification_any_bounce(subs, notification, failing) ==
    IF notification.event_type = "Bounce" /\ notification.bounce # None
    THEN [ ret         |-> Ok(<<>>),
           subscribers |-> remove_recipients(
                               subs, Unwrap(notification.bounce).bounced_recipients, failing) ]
    ELSE [ ret |-> Ok(<<>>), subscribers |-> subs ]

\* a plausible slip: an event without its payload is ignored like an event
\* of another type
handle_notification_lenient(subs, notification, failing) ==
    IF notification.event_type = "Bounce" /\ notification.bounce # None
    THEN IF Unwrap(notification.bounce).bounce_type = "Permanent"
         THEN [ ret         |-> Ok(<<>>),
                subscribers |-> remove_recipients(
                                    subs, Unwrap(notification.bounce).bounced_recipients,
                                    failing) ]
         ELSE [ ret |-> Ok(<<>>), subscribers |-> subs ]
    ELSE IF notification.event_type = "Complaint" /\ notification.complaint # None
    THEN [ ret         |-> Ok(<<>>),
           subscribers |-> remove_recipients(
                               subs, Unwrap(notification.complaint).complained_recipients,
                               failing) ]
    ELSE [ ret |-> Ok(<<>>), subscribers |-> subs ]

\* handle_notification: the value returned and the subscribers table it
\* leaves
handle_notification(subs, notification, failing) ==
    IF notification.event_type = "Bounce"
    THEN IF notification.bounce = None
         THEN [ ret |-> Err("Bounce notification missing bounce field"), subscribers |-> subs ]
         ELSE LET bounce == Unwrap(notification.bounce)
              IN  IF bounce.bounce_type = "Permanent"
                  THEN [ ret         |-> Ok(<<>>),
                         subscribers |-> remove_recipients(
                                             subs, bounce.bounced_recipients, failing) ]
                  ELSE [ ret |-> Ok(<<>>), subscribers |-> subs ]
    ELSE IF notification.event_type = "Complaint"
    THEN IF notification.complaint = None
         THEN [ ret |-> Err("Complaint notification missing complaint field"), subscribers |-> subs ]
         ELSE [ ret         |-> Ok(<<>>),
                subscribers |-> remove_recipients(
                                    subs, Unwrap(notification.complaint).complained_recipients,
                                    failing) ]
    ELSE [ ret |-> Ok(<<>>), subscribers |-> subs ]

(***************************************************************************)
(* strategies.rs, mailer.rs, api/handlers.rs                               *)
(***************************************************************************)
\* DigestStrategy::description
description(strategy) ==
    IF strategy.kind = "TopN"
    THEN <<"Top", strategy.value, "stories by points">>
    ELSE <<"All stories with", strategy.value, "+ points">>

\* Mailer::send_verification_email: the message handed to send_email
verification_email(recipient, verify_url, strategy_description) ==
    [ subject              |-> "Confirm your Hacker Digest subscription",
      recipient            |-> recipient,
      verify_url           |-> verify_url,
      strategy_description |-> strategy_description ]

\* Mailer::send_preference_update_email: the message handed to send_email
preference_update_email(recipient, old_strategy_description, new_strategy_description) ==
    [ subject                  |-> "Your Hacker Digest preferences have been updated",
      recipient                |-> recipient,
      old_strategy_description |-> old_strategy_description,
      new_strategy_description |-> new_strategy_description ]

json(status, body) == [ kind |-> "Json", status |-> status, body |-> body ]

subscribe_200 == json(200, "{message: Check your email to confirm your subscription}")

subscribe_500 == json(500, "{error: Internal server error, please try again later}")

\* what a call of a handler leaves: its response, the two tables, the
\* messages the mailer accepted, the number of tokens generated and the
\* calls it made to the Storage, in order
Outcome(response, subs, pend, sent, generated, storage) ==
    [ response    |-> response,
      subscribers |-> subs,
      pending     |-> pend,
      sent        |-> sent,
      generated   |-> generated,
      storage     |-> storage ]

\* the outcome of a handler that called the Storage before going on
After(storage_call, outcome) ==
    [ outcome EXCEPT !.storage = <<storage_call>> \o @ ]

\* a plausible slip: the answer tells that the email was subscribed
update_existing_telling(subs, pend, existing, email, strategy, mailer) ==
    LET updated == update_subscription_strategy(subs, existing, strategy)
    IN  IF ~mailer.ok
        THEN Outcome(subscribe_500, updated.subscribers, pend, <<>>, 0, <<"upsert_subscriber">>)
        ELSE Outcome(json(200, "{message: Your preferences have been updated}"),
                     updated.subscribers, pend,
                     <<preference_update_email(email, description(updated.ret.val),
                                               description(strategy))>>, 0,
                     <<"upsert_subscriber">>)

\* subscribe_post lines 222-245: a Subscriber exists for the email
update_existing(subs, pend, existing, email, strategy, mailer) ==
    LET updated == update_subscription_strategy(subs, existing, strategy)
    IN  IF ~mailer.ok
        THEN Outcome(subscribe_500, updated.subscribers, pend, <<>>, 0, <<"upsert_subscriber">>)
        ELSE Outcome(subscribe_200, updated.subscribers, pend,
                     <<preference_update_email(email, description(updated.ret.val),
                                               description(strategy))>>, 0,
                     <<"upsert_subscriber">>)

\* a plausible slip: the Subscriber is stored with the request, before
\* any verification
create_new_subscribed(subs, pend, email, strategy, mailer, now, n_issued) ==
    LET subscriber == Subscriber_new(email, strategy, now, n_issued)
    IN  IF ~mailer.ok
        THEN Outcome(subscribe_500, upsert_subscriber(subs, subscriber), pend, <<>>, 1,
                     <<"upsert_subscriber">>)
        ELSE Outcome(subscribe_200, upsert_subscriber(subs, subscriber), pend, <<>>, 1,
                     <<"upsert_subscriber">>)

\* a plausible slip: the pending record is taken back when the email
\* could not be sent
create_new_rolled_back(subs, pend, email, strategy, mailer, now, n_issued) ==
    LET created    == create_pending_subscription(pend, email, strategy, now, n_issued)
        p          == created.ret.val
        verify_url == <<"/api/verify?email=", to_lowercase(email), "&token=", p.token>>
    IN  IF ~mailer.ok
        THEN Outcome(subscribe_500, subs, pend, <<>>, 1,
                     <<"upsert_pending_subscription">>)
        ELSE Outcome(subscribe_200, subs, created.pending,
                     <<verification_email(p.email, verify_url, description(strategy))>>, 1,
                     <<"upsert_pending_subscription">>)

\* subscribe_post lines 249-276: no Subscriber exists for the email
create_new(subs, pend, email, strategy, mailer, now, n_issued) ==
    LET created    == create_pending_subscription(pend, email, strategy, now, n_issued)
        p          == created.ret.val
        verify_url == <<"/api/verify?email=", to_lowercase(email), "&token=", p.token>>
    IN  IF ~mailer.ok
        THEN Outcome(subscribe_500, subs, created.pending, <<>>, 1,
                     <<"upsert_pending_subscription">>)
        ELSE Outcome(subscribe_200, subs, created.pending,
                     <<verification_email(p.email, verify_url, description(strategy))>>, 1,
                     <<"upsert_pending_subscription">>)

\* a plausible slip: the lookup of the existing Subscriber is left out
subscribe_post_always_pending(subs, pend, req, captcha, mailer, now, n_issued) ==
    LET strategy == from_str(req.strategy)
        email    == EmailAddress_from_str(req.email)
    IN  IF req.website # ""
        THEN Outcome(subscribe_200, subs, pend, <<>>, 0, <<>>)
        ELSE IF ~strategy.ok
        THEN Outcome(json(400, "{error: Invalid strategy}"), subs, pend, <<>>, 0, <<>>)
        ELSE IF ~email.ok
        THEN Outcome(json(400, "{error: Invalid email address}"), subs, pend, <<>>, 0, <<>>)
        ELSE IF req.turnstile_token = ""
        THEN Outcome(json(400, "{error: CAPTCHA verification required}"), subs, pend, <<>>, 0, <<>>)
        ELSE IF ~captcha.ok
        THEN Outcome(subscribe_500, subs, pend, <<>>, 0, <<>>)
        ELSE IF ~captcha.val
        THEN Outcome(json(400, "{error: CAPTCHA verification failed}"), subs, pend, <<>>, 0, <<>>)
        ELSE create_new(subs, pend, email.val, strategy.val, mailer, now, n_issued)

\* subscribe_post, for a body that parses as a SubscribeRequest
subscribe_post(subs, pend, req, captcha, mailer, now, n_issued) ==
    LET strategy == from_str(req.strategy)
        email    == EmailAddress_from_str(req.email)
    IN  IF req.website # ""
        THEN Outcome(subscribe_200, subs, pend, <<>>, 0, <<>>)
        ELSE IF ~strategy.ok
        THEN Outcome(json(400, "{error: Invalid strategy}"), subs, pend, <<>>, 0, <<>>)
        ELSE IF ~email.ok
        THEN Outcome(json(400, "{error: Invalid email address}"), subs, pend, <<>>, 0, <<>>)
        ELSE IF req.turnstile_token = ""
        THEN Outcome(json(400, "{error: CAPTCHA verification required}"), subs, pend, <<>>, 0, <<>>)
        ELSE IF ~captcha.ok
        THEN Outcome(subscribe_500, subs, pend, <<>>, 0, <<>>)
        ELSE IF ~captcha.val
        THEN Outcome(json(400, "{error: CAPTCHA verification failed}"), subs, pend, <<>>, 0, <<>>)
        ELSE LET existing == get_subscriber_by_email(subs, email.val)
             IN  IF ~existing.ok
                 THEN Outcome(subscribe_500, subs, pend, <<>>, 0,
                              <<"get_subscriber_by_email">>)
                 ELSE IF existing.val # None
                 THEN After("get_subscriber_by_email",
                            update_existing(subs, pend, Unwrap(existing.val),
                                            email.val, strategy.val, mailer))
                 ELSE After("get_subscriber_by_email",
                            create_new(subs, pend, email.val, strategy.val, mailer,
                                       now, n_issued))

\* a token as it stands in the query string: <<>> is the empty string
\* (the default of a missing parameter), <<t>> the text of token t
TokenStrings == { <<>> } \cup { <<t>> : t \in ApiTokenInputs }

\* the email parameter of GET /api/verify: "" when it is missing
MaybeEmails == { "a@x.io", "A@x.io", "not-an-email", "" }

\* the bodies of POST /api/subscribe handed to the handlers: the requests
\* of one mailbox and the requests that are turned down
HandlerCalls ==
    { c \in SubscribeCalls :
          c.mailer = MailerOk /\ c.req.email \in { "a@x.io", "A@x.io", "not-an-email" } }

\* the request body of POST /api/unsubscribe
Bodies == { None, Some("List-Unsubscribe=One-Click"), Some("confirm=yes") }

redirect(location) == [ kind |-> "Redirect", location |-> location ]

text(status, body) == [ kind |-> "Text", status |-> status, body |-> body ]

\* ApiResponse::Html of the rendered UnsubscribeConfirmTemplate
Html(email, token) == [ kind |-> "Html", email |-> email, token |-> token ]

\* GET /api/unsubscribe
unsubscribe_get(subs, pend, token_str) ==
    LET token == Token_from_str(token_str)
    IN  IF ~token.ok
        THEN Outcome(redirect("/unsubscribe-error.html"), subs, pend, <<>>, 0, <<>>)
        ELSE LET found == get_subscriber_by_unsubscribe_token(subs, token.val)
             IN  After("get_subscriber_by_unsubscribe_token",
                       IF found.ok /\ found.val # None
                       THEN Outcome(Html(Unwrap(found.val).email, token.val),
                                    subs, pend, <<>>, 0, <<>>)
                       ELSE Outcome(redirect("/unsubscribe-error.html"),
                                    subs, pend, <<>>, 0, <<>>))

\* POST /api/unsubscribe
unsubscribe_post(subs, pend, token_str, body) ==
    LET token        == Token_from_str(token_str)
        is_one_click == body = Some("List-Unsubscribe=One-Click")
    IN  IF ~token.ok
        THEN Outcome(text(400, "Invalid token"), subs, pend, <<>>, 0, <<>>)
        ELSE LET out == remove_subscriber(subs, token.val)
             IN  After("get_subscriber_by_unsubscribe_token",
                       IF out.ret = Ok(TRUE)
                       THEN Outcome(IF is_one_click
                                    THEN text(200, "Unsubscribed successfully")
                                    ELSE redirect("/unsubscribe-success.html"),
                                    out.subscribers, pend, <<>>, 0, <<"remove_subscriber">>)
                       ELSE IF out.ret = Ok(FALSE)
                       THEN Outcome(IF is_one_click
                                    THEN text(404, "Token not found")
                                    ELSE redirect("/unsubscribe-error.html"),
                                    out.subscribers, pend, <<>>, 0, <<>>)
                       ELSE Outcome(IF is_one_click
                                    THEN text(500, "Internal server error")
                                    ELSE redirect("/unsubscribe-error.html"),
                                    out.subscribers, pend, <<>>, 0, <<>>))

\* GET /api/verify
verify_get(subs, pend, maybe_email, maybe_token, now, n_issued) ==
    LET email == EmailAddress_from_str(maybe_email)
        token == Token_from_str(maybe_token)
    IN  IF ~email.ok
        THEN Outcome(redirect("/verify-error.html"), subs, pend, <<>>, 0, <<>>)
        ELSE IF ~token.ok
        THEN Outcome(redirect("/verify-error.html"), subs, pend, <<>>, 0, <<>>)
        ELSE LET out == verify_subscription(subs, pend, email.val, token.val, now, n_issued)
             IN  After("get_pending_subscription",
                       IF out.ret.ok /\ out.ret.val # None
                       THEN Outcome(redirect("/verify-success.html"), out.subscribers, pend,
                                    <<>>, out.generated, <<"upsert_subscriber">>)
                       ELSE Outcome(redirect("/verify-error.html"), out.subscribers, pend,
                                    <<>>, out.generated, <<>>))

(***************************************************************************)
(* The calls of the API.                                                   *)
(***************************************************************************)
\* POST /api/subscribe
SubscribePost(req, captcha, mailer) ==
    LET out == subscribe_post(subscribers, pending, req, captcha, mailer, Now, issued)
    IN  /\ issued + out.generated <= MaxApiTokens
        /\ subscribers' = out.subscribers
        /\ pending' = out.pending
        /\ issued' = issued + out.generated
        /\ apiCall' = [ op       |-> "subscribe_post",
                     req      |-> req,
                     captcha  |-> captcha,
                     mailer   |-> mailer,
                     response |-> out.response,
                     sent     |-> out.sent,
                     storage  |-> out.storage ]
        /\ UNCHANGED <<clock, verify, verifyPrev, verified, digestVars, queryVars, batch, conv, running>>

\* verify_subscription, called by GET /api/verify
ApiVerify(email, token) ==
    LET out  == verify_subscription(subscribers, pending, email, token, Now, issued)
        item == get_item(pending, to_lowercase(email))
    IN  /\ issued + out.generated <= MaxApiTokens
        /\ subscribers' = out.subscribers
        /\ issued' = issued + out.generated
        /\ apiCall' = [ op |-> "verify_subscription", email |-> email, token |-> token,
                     ret |-> out.ret ]
        /\ verified' = IF item # None /\ Unwrap(item).token = token
                       THEN verified \cup { to_lowercase(email) }
                       ELSE verified
        /\ UNCHANGED <<pending, clock, verify, verifyPrev, digestVars, queryVars, batch, conv, running>>

\* unsubscribe.rs remove_subscriber, called by POST /api/unsubscribe
RemoveSubscriber(token) ==
    LET out == remove_subscriber(subscribers, token)
    IN  /\ subscribers' = out.subscribers
        /\ apiCall' = [ op |-> "remove_subscriber", token |-> token, ret |-> out.ret,
                     \* history: the keys of the items it deleted
                     removed |-> { it.SK : it \in subscribers \ out.subscribers } ]
        /\ UNCHANGED <<pending, clock, issued, verify, verifyPrev, verified,
                       digestVars, queryVars, batch, conv, running>>

\* handle_notification, called for each record of an SNS event, with the
\* storage failing for the keys of `failing` while the event is handled;
\* the call records the keys of the items it deleted
HandleNotification(notification, failing) ==
    LET out == handle_notification(subscribers, notification, failing)
    IN  /\ subscribers' = out.subscribers
        /\ apiCall' = [ op |-> "handle_notification", notification |-> notification,
                     failing |-> failing, ret |-> out.ret,
                     removed |-> { it.SK : it \in subscribers \ out.subscribers } ]
        /\ UNCHANGED <<pending, clock, issued, verify, verifyPrev, verified,
                       digestVars, queryVars, batch, conv, running>>

\* GET /api/verify
VerifyGet(maybe_email, maybe_token) ==
    LET out == verify_get(subscribers, pending, maybe_email, maybe_token, Now, issued)
    IN  /\ issued + out.generated <= MaxApiTokens
        /\ subscribers' = out.subscribers
        /\ pending' = out.pending
        /\ issued' = issued + out.generated
        /\ apiCall' = [ op       |-> "verify_get",
                     email    |-> maybe_email,
                     token    |-> maybe_token,
                     response |-> out.response,
                     sent     |-> out.sent,
                     storage  |-> out.storage ]
        /\ verified' = IF \E p \in pending :
                              /\ EmailAddress_from_str(maybe_email).ok
                              /\ p.SK = to_lowercase(maybe_email)
                              /\ maybe_token = <<p.token>>
                       THEN verified \cup { to_lowercase(maybe_email) }
                       ELSE verified
        /\ UNCHANGED <<clock, verify, verifyPrev, digestVars, queryVars, batch, conv, running>>

\* GET /api/unsubscribe
UnsubscribeGet(token_str) ==
    LET out == unsubscribe_get(subscribers, pending, token_str)
    IN  /\ subscribers' = out.subscribers
        /\ pending' = out.pending
        /\ apiCall' = [ op       |-> "unsubscribe_get",
                     token    |-> token_str,
                     response |-> out.response,
                     sent     |-> out.sent,
                     storage  |-> out.storage ]
        /\ UNCHANGED <<clock, issued, verify, verifyPrev, verified, digestVars, queryVars, batch, conv, running>>

\* POST /api/unsubscribe
UnsubscribePost(token_str, body) ==
    LET out == unsubscribe_post(subscribers, pending, token_str, body)
    IN  /\ subscribers' = out.subscribers
        /\ pending' = out.pending
        /\ apiCall' = [ op       |-> "unsubscribe_post",
                     token    |-> token_str,
                     body     |-> body,
                     response |-> out.response,
                     sent     |-> out.sent,
                     storage  |-> out.storage ]
        /\ UNCHANGED <<clock, issued, verify, verifyPrev, verified, digestVars, queryVars, batch, conv, running>>

\* the wall clock advances between two calls
ApiTick ==
    /\ clock < MaxApiTicks
    /\ clock' = clock + 1
    /\ apiCall' = NoApiCall
    /\ UNCHANGED <<subscribers, pending, issued, verify, verifyPrev, verified,
                   digestVars, queryVars, batch, conv, running>>

(***************************************************************************)
(* storage/dynamo.rs: the queries over the Subscriber items.               *)
(***************************************************************************)
\* most items the backend puts in one page of a query
MaxPage == 2

\* the sort keys of the SUBSCRIBER partition, in the order a query
\* returns them
QueryKeys == <<"a@x.io", "b@x.io", "c@x.io">>

Rank(sk) == CHOOSE i \in 1..Len(QueryKeys) : QueryKeys[i] = sk

\* Token values of the stored items and of the lookups; 3 is held by no
\* item
QueryTokens == { 1, 2 }
LookupTokens == { 1, 2, 3 }

SubscriberItem(sk, token) ==
    [ PK                |-> "SUBSCRIBER",
      SK                |-> sk,
      email             |-> sk,
      strategy          |-> <<"TOP_N", 10>>,
      subscribed_at     |-> 0,
      unsubscribe_token |-> token ]

\* the SUBSCRIBER partition as any writer of the table may have left it:
\* at most one item per sort key; the token index does not keep two items
\* from holding the same token
QueryTables ==
    { t \in SUBSET { SubscriberItem(QueryKeys[i], token) :
                         i \in 1..Len(QueryKeys), token \in QueryTokens } :
          \A it1, it2 \in t : it1.SK = it2.SK => it1 = it2 }

\* the items of the partition behind a start key, in key order
RECURSIVE InKeyOrder(_, _)
InKeyOrder(table, from) ==
    IF from > Len(QueryKeys) THEN <<>>
    ELSE LET here == { it \in table : it.SK = QueryKeys[from] }
         IN  (IF here = {} THEN <<>> ELSE <<CHOOSE it \in here : TRUE>>)
                 \o InKeyOrder(table, from + 1)

\* one Query call of the backend on the partition: it returns the next
\* items in key order, as many as fit its page, and a last_evaluated_key
\* whenever items are left behind the page; when the page ends with the
\* last item the backend may also return one (more)
query(table, exclusive_start_key, page_size, more) ==
    LET from  == IF exclusive_start_key = None THEN 1
                 ELSE Rank(Unwrap(exclusive_start_key)) + 1
        rest  == InKeyOrder(table, from)
        items == Take(rest, page_size)
    IN  [ items              |-> items,
          last_evaluated_key |->
              IF items = <<>> THEN None
              ELSE IF Len(items) < Len(rest) \/ (more /\ Len(items) = page_size)
              THEN Some(items[Len(items)].SK)
              ELSE None ]

\* for item in items { subscribers.push(subscriber_from_item(item)?) }
RECURSIVE push_all(_, _)
push_all(subs, items) ==
    IF items = <<>> THEN Ok(subs)
    ELSE LET s == subscriber_from_item(Head(items))
         IN  IF ~s.ok THEN s ELSE push_all(Append(subs, s.val), Tail(items))

\* a plausible slip: the loop ends after the first page
loop_body_one_page(state, output) ==
    LET pushed == push_all(state.subscribers, output.items)
    IN  IF ~pushed.ok
        THEN [ state EXCEPT !.op = "returned", !.ret = pushed, !.pages = @ + 1 ]
        ELSE [ state EXCEPT !.op = "returned",
                            !.subscribers = pushed.val,
                            !.exclusive_start_key = output.last_evaluated_key,
                            !.pages = @ + 1,
                            !.ret = Ok(pushed.val) ]

\* get_all_subscribers, one turn of its loop on the output of the query
\* (lines 159-168) and the return (line 171)
loop_body(state, output) ==
    LET pushed == push_all(state.subscribers, output.items)
    IN  IF ~pushed.ok
        THEN [ state EXCEPT !.op = "returned", !.ret = pushed, !.pages = @ + 1 ]
        ELSE IF output.last_evaluated_key = None
        THEN [ state EXCEPT !.op = "returned",
                            !.subscribers = pushed.val,
                            !.exclusive_start_key = None,
                            !.pages = @ + 1,
                            !.ret = Ok(pushed.val) ]
        ELSE [ state EXCEPT !.subscribers = pushed.val,
                            !.exclusive_start_key = output.last_evaluated_key,
                            !.pages = @ + 1 ]

\* get_all_subscribers is called (lines 139-140)
ScanStart ==
    /\ scan.op \in { "idle", "returned" }
    /\ scan' = [ op                  |-> "querying",
                 subscribers         |-> <<>>,
                 exclusive_start_key |-> None,
                 \* history: the queries sent so far
                 pages               |-> 0,
                 ret                 |-> Ok(<<>>) ]
    /\ UNCHANGED <<lookup, digestVars, subVars, apiVars, batch, conv, running>>

\* get_all_subscribers sends a query and handles its output
ScanQuery(page_size, more) ==
    /\ scan.op = "querying"
    /\ scan' = loop_body(scan, query(subscribers, scan.exclusive_start_key, page_size, more))
    /\ UNCHANGED <<lookup, digestVars, subVars, apiVars, batch, conv, running>>

\* get_subscriber_by_unsubscribe_token is called and returns
LookupByToken(token) ==
    /\ lookup' = [ op    |-> "get_subscriber_by_unsubscribe_token",
                   token |-> token,
                   ret   |-> get_subscriber_by_unsubscribe_token(subscribers, token) ]
    /\ UNCHANGED <<scan, digestVars, subVars, apiVars, batch, conv, running>>

(***************************************************************************)
(* main.rs: the scheduled handler.  It builds the digest of every          *)
(* strategy concurrently, lists the subscribers and sends each one the     *)
(* digest of their strategy, a bounded number of sends at a time.          *)
(***************************************************************************)
MAX_CONCURRENT_EMAILS == 10

\* the strategies whose digests the runs of the model build: one TopN
\* strategy and the two highest thresholds of DigestStrategy::all()
BatchStrategies == { TopN(10), OverPointThreshold(500), OverPointThreshold(250) }

\* the instants two successive daily runs stamp their date with
BatchDates == { 6, HoursPerDay + 6 }

\* the candidates of a run: on one list every strategy selects a post, on
\* another the thresholds select none
BatchPosts ==
    { <<Post("b", 200), Post("a", 500)>>, <<Post("b", 200), Post("c", 100)>> }

\* the sort keys of a partition with more subscribers than sends may be
\* in flight
ManyKeys ==
    <<"s01@x.io", "s02@x.io", "s03@x.io", "s04@x.io", "s05@x.io", "s06@x.io",
      "s07@x.io", "s08@x.io", "s09@x.io", "s10@x.io", "s11@x.io", "s12@x.io">>

\* the sort keys of the partitions below, in the order of the backend
BatchKeys == <<"a@x.io", "b@x.io", "c@x.io">> \o ManyKeys

\* a subscriber of the runs as upsert_subscriber writes it, its token
\* the position of its key
BatchItem(sk, strategy) ==
    [ PK                |-> "SUBSCRIBER",
      SK                |-> sk,
      email             |-> sk,
      strategy          |-> to_string(strategy),
      subscribed_at     |-> 0,
      unsubscribe_token |-> CHOOSE i \in 1..Len(BatchKeys) : BatchKeys[i] = sk ]

\* the SUBSCRIBER partition of the runs: three subscribers, one for each
\* strategy, or none
BatchTables ==
    { {},
      { BatchItem("a@x.io", TopN(10)),
        BatchItem("b@x.io", OverPointThreshold(500)),
        BatchItem("c@x.io", OverPointThreshold(250)) } }

\* a partition with more subscribers than sends may be in flight: eleven
\* of one strategy and one of another
ManySubscribers ==
    { BatchItem(ManyKeys[i], IF i = 4 THEN OverPointThreshold(500) ELSE TopN(10)) :
          i \in 1..Len(ManyKeys) }

\* the recipients the mailer refuses in a run
MailerRefusals ==
    { {}, { "b@x.io" }, { "a@x.io", "c@x.io" }, { "s02@x.io" }, { "s03@x.io", "s12@x.io" } }

\* the whole partition in key order, as the pages of get_all_subscribers
\* deliver it
RECURSIVE all_in_order(_, _)
all_in_order(table, from) ==
    IF from > Len(BatchKeys) THEN <<>>
    ELSE LET here == { it \in table : it.SK = BatchKeys[from] }
         IN  (IF here = {} THEN <<>> ELSE <<CHOOSE it \in here : TRUE>>)
                 \o all_in_order(table, from + 1)

\* Storage::get_all_subscribers with its outcome
try_get_all_subscribers(table, ok) ==
    IF ok THEN push_all(<<>>, all_in_order(table, 1))
    ELSE Err("Failed to query subscribers")

\* Storage::fetch_digest with its outcome
try_fetch_digest(table, type_, date, ok) ==
    IF ok THEN Ok(fetch_digest(table, type_, date)) ELSE Err("Failed to fetch digest")

\* Storage::save_digest with its outcome: a put_item that fails returns
\* the error and writes nothing
try_save_digest(table, type_, date, posts, ok) ==
    IF ok THEN [ ret |-> Ok(<<>>), table |-> save_digest(table, type_, date, posts) ]
    ELSE [ ret |-> Err("Failed to save digest"), table |-> table ]

\* a build_digest call that has not run yet
\* (storage: its calls to the Storage so far, each with its answer)
NewTask == [ pc |-> "start", yesterday_digest |-> None, ret |-> None, storage |-> <<>> ]

StorageCall(call, result) == [ call |-> call, ok |-> result.ok ]

\* a plausible slip: a fetch that fails is taken for "no digest stored"
after_fetch_or_none(task, fetched) ==
    [ task EXCEPT !.pc = "fetched",
                  !.yesterday_digest = IF fetched.ok THEN fetched.val ELSE None,
                  !.storage = Append(@, StorageCall("fetch_digest", fetched)) ]

\* build_digest line 26: fetch_digest(..).await? returns the error of the
\* fetch to the caller
after_fetch(task, fetched) ==
    IF ~fetched.ok
    THEN [ task EXCEPT !.pc = "done", !.ret = Some(fetched),
                       !.storage = Append(@, StorageCall("fetch_digest", fetched)) ]
    ELSE [ task EXCEPT !.pc = "fetched", !.yesterday_digest = fetched.val,
                       !.storage = Append(@, StorageCall("fetch_digest", fetched)) ]

\* build_digest lines 28-31
selected_posts(strategy, posts, yesterday_digest) ==
    select(strategy, sort_by_points(filter_sent_posts(posts, yesterday_digest)))

\* build_digest lines 33-37: save_digest(..).await? returns the error of
\* the save, and the selection is returned after a save that succeeded
after_save(task, saved, selected) ==
    [ task EXCEPT !.pc = "done",
                  !.ret = Some(IF saved.ok THEN Ok(selected) ELSE saved),
                  !.storage = Append(@, StorageCall("save_digest", saved)) ]

\* build_all_digests lines 237-251: the digests that were built and are
\* not empty, by strategy
build_all_digests(tasks) ==
    LET built == { st \in DOMAIN tasks :
                       Unwrap(tasks[st].ret).ok /\ Unwrap(tasks[st].ret).val # <<>> }
    IN  [ st \in built |-> Unwrap(tasks[st].ret).val ]

\* a plausible slip: a subscriber is sent whatever was built, empty or not
posts_for_any(digests_by_strategy, strategy) ==
    IF strategy \in DOMAIN digests_by_strategy
    THEN Some(digests_by_strategy[strategy])
    ELSE Some(<<>>)

\* handler lines 141-151: the posts of the subscriber's strategy, if a
\* digest was built for it and holds a post
posts_for(digests_by_strategy, strategy) ==
    IF strategy \in DOMAIN digests_by_strategy /\ digests_by_strategy[strategy] # <<>>
    THEN Some(digests_by_strategy[strategy])
    ELSE None

\* a plausible slip: the stream takes the next subscriber whenever one is
\* left
has_room_unbounded(in_flight) == TRUE

\* buffer_unordered(MAX_CONCURRENT_EMAILS): the stream takes the next
\* subscriber while fewer futures than the limit are in progress
has_room(in_flight) == Cardinality(in_flight) < MAX_CONCURRENT_EMAILS

\* a plausible slip: the first send that fails ends the stream
remaining_unless_failed(queue, result) == IF result.ok THEN queue ELSE <<>>

\* the subscribers left in the stream when a send has ended: the outcome
\* of a send does not touch them
remaining(queue, result) == queue

\* handler lines 189-209
handler_result(send_results) ==
    LET failure_count == Cardinality({ r \in send_results : ~r.result.ok })
    IN  IF failure_count > 0 THEN Err("Some emails failed to send.") ELSE Ok(<<>>)

\* the handler is invoked: the posts are snapshotted and a build_digest
\* future is created for every strategy (lines 66-103, 220-233)
BatchStart(date, posts, refused) ==
    /\ batch.phase \in { "idle", "done" }
    /\ IF batch.phase = "idle" THEN TRUE ELSE date > batch.date
    /\ batch' = [ phase               |-> "building",
                  date                |-> date,
                  posts               |-> posts,
                  refused             |-> refused,
                  tasks               |-> [ st \in BatchStrategies |-> NewTask ],
                  digests_by_strategy |-> << >>,
                  queue               |-> <<>>,
                  in_flight           |-> {},
                  attempted           |-> {},
                  send_results        |-> {},
                  ret                 |-> None,
                  \* history: the digests stored when the run began
                  before              |-> digests ]
    /\ UNCHANGED <<digestVars, subVars, apiVars, queryVars, conv, running>>

\* the build_digest future of a strategy runs up to its first await
TaskFetch(strategy, ok) ==
    /\ batch.phase = "building"
    /\ batch.tasks[strategy].pc = "start"
    /\ LET fetched == try_fetch_digest(digests, to_string(strategy),
                                       Yesterday(batch.date), ok)
       IN  batch' = [ batch EXCEPT !.tasks[strategy] = after_fetch(@, fetched) ]
    /\ UNCHANGED <<digestVars, subVars, apiVars, queryVars, conv, running>>

\* the build_digest future of a strategy runs from its first await to its
\* end
TaskSave(strategy, ok) ==
    /\ batch.phase = "building"
    /\ batch.tasks[strategy].pc = "fetched"
    /\ LET selected == selected_posts(strategy, batch.posts,
                                      batch.tasks[strategy].yesterday_digest)
           saved    == try_save_digest(digests, to_string(strategy), batch.date,
                                       selected, ok)
       IN  /\ digests' = saved.table
           /\ batch' = [ batch EXCEPT
                             !.tasks[strategy] = after_save(@, saved.ret, selected) ]
    /\ UNCHANGED <<build, nbuilds, inOrder, subVars, apiVars, queryVars, conv, running>>

\* join_all has every result: the digests are collected and the
\* subscribers are listed (lines 235-122)
CollectAndList(ok) ==
    /\ batch.phase = "building"
    /\ \A st \in BatchStrategies : batch.tasks[st].pc = "done"
    /\ LET listed == try_get_all_subscribers(subscribers, ok)
       IN  batch' =
               IF ~listed.ok
               THEN [ batch EXCEPT !.phase = "done",
                                   !.digests_by_strategy = build_all_digests(batch.tasks),
                                   !.ret = Some(listed) ]
               ELSE IF listed.val = <<>>
               THEN [ batch EXCEPT !.phase = "done",
                                   !.digests_by_strategy = build_all_digests(batch.tasks),
                                   !.ret = Some(Ok(<<>>)) ]
               ELSE [ batch EXCEPT !.phase = "sending",
                                   !.digests_by_strategy = build_all_digests(batch.tasks),
                                   !.queue = listed.val ]
    /\ UNCHANGED <<digestVars, subVars, apiVars, queryVars, conv, running>>

\* the stream takes the next subscriber and runs its future up to its
\* first await: a subscriber without posts is done at once (line 149), for
\* another one mailer.send_digest is called (lines 173-181)
SendPull ==
    /\ batch.phase = "sending"
    /\ batch.queue # <<>>
    /\ has_room(batch.in_flight)
    /\ LET subscriber == Head(batch.queue)
           posts      == posts_for(batch.digests_by_strategy, subscriber.strategy)
       IN  batch' =
               IF posts = None
               THEN [ batch EXCEPT
                          !.queue = Tail(@),
                          !.send_results = @ \cup { [ email  |-> subscriber.email,
                                                      result |-> Ok(<<>>) ] } ]
               ELSE [ batch EXCEPT
                          !.queue = Tail(@),
                          !.in_flight = @ \cup { subscriber.email },
                          !.attempted = @ \cup { [ recipient |-> subscriber.email,
                                                   posts     |-> Unwrap(posts) ] } ]
    /\ UNCHANGED <<digestVars, subVars, apiVars, queryVars, conv, running>>

\* a send in flight ends, with the answer of the mailer
SendComplete(email) ==
    /\ batch.phase = "sending"
    /\ email \in batch.in_flight
    /\ LET result == IF email \in batch.refused
                     THEN Err("Failed to send email via SES") ELSE Ok(<<>>)
       IN  batch' = [ batch EXCEPT
                          !.in_flight = @ \ { email },
                          !.queue = remaining(@, result),
                          !.send_results = @ \cup { [ email |-> email, result |-> result ] } ]
    /\ UNCHANGED <<digestVars, subVars, apiVars, queryVars, conv, running>>

\* the stream is exhausted: the results are counted and the handler
\* returns (lines 189-209)
HandlerReturn ==
    /\ batch.phase = "sending"
    /\ batch.queue = <<>>
    /\ batch.in_flight = {}
    /\ batch' = [ batch EXCEPT !.phase = "done",
                               !.ret = Some(handler_result(batch.send_results)) ]
    /\ UNCHANGED <<digestVars, subVars, apiVars, queryVars, conv, running>>

(***************************************************************************)
(* strategies.rs: the canonical string of a strategy, character by         *)
(* character.  A string is the sequence of its characters.                 *)
(***************************************************************************)
TOP_N_PREFIX == <<"T", "O", "P", "_", "N", "#">>

POINT_THRESHOLD_PREFIX ==
    <<"P", "O", "I", "N", "T", "_", "T", "H", "R", "E", "S", "H", "O", "L", "D", "#">>

DecimalDigits == <<"0", "1", "2", "3", "4", "5", "6", "7", "8", "9">>

IsDigit(c) == \E d \in 1..10 : DecimalDigits[d] = c

DigitValue(c) == (CHOOSE d \in 1..10 : DecimalDigits[d] = c) - 1

\* write!(f, "{}", n) for a number that is not negative
RECURSIVE Decimal(_)
Decimal(n) ==
    IF n < 10 THEN <<DecimalDigits[n + 1]>>
    ELSE Decimal(n \div 10) \o <<DecimalDigits[(n % 10) + 1]>>

\* the number written by a sequence of digits
RECURSIVE DigitsValue(_)
DigitsValue(digits) ==
    IF digits = <<>> THEN 0
    ELSE 10 * DigitsValue(SubSeq(digits, 1, Len(digits) - 1))
             + DigitValue(digits[Len(digits)])

\* str::strip_prefix
strip_prefix(s, prefix) ==
    IF Len(s) >= Len(prefix) /\ SubSeq(s, 1, Len(prefix)) = prefix
    THEN Some(SubSeq(s, Len(prefix) + 1, Len(s)))
    ELSE None

\* digits behind an optional sign: at least one, and nothing else
AllDigits(s) == s # <<>> /\ \A i \in 1..Len(s) : IsDigit(s[i])

\* str::parse::<usize>: decimal digits, behind an optional "+"
parse_usize(s) ==
    LET digits == IF s # <<>> /\ s[1] = "+" THEN Tail(s) ELSE s
    IN  IF AllDigits(digits) THEN Ok(DigitsValue(digits))
        ELSE Err("invalid digit found in string")

\* str::parse::<i32>: decimal digits, behind an optional "+" or "-"
parse_i32(s) ==
    LET signed == s # <<>> /\ s[1] \in { "+", "-" }
        digits == IF signed THEN Tail(s) ELSE s
    IN  IF ~AllDigits(digits) THEN Err("invalid digit found in string")
        ELSE IF signed /\ s[1] = "-" THEN Ok(0 - DigitsValue(digits))
        ELSE Ok(DigitsValue(digits))

\* impl Display for DigestStrategy, fmt
fmt(strategy) ==
    IF strategy.kind = "TopN"
    THEN TOP_N_PREFIX \o Decimal(strategy.value)
    ELSE POINT_THRESHOLD_PREFIX \o Decimal(strategy.value)

\* a plausible slip: every number is taken for a TopN value
DigestStrategy_from_str_any(s) ==
    LET top_n     == strip_prefix(s, TOP_N_PREFIX)
        threshold == strip_prefix(s, POINT_THRESHOLD_PREFIX)
    IN  IF top_n # None
        THEN LET n == parse_usize(Unwrap(top_n))
             IN  IF ~n.ok THEN n ELSE Ok(TopN(n.val))
        ELSE IF threshold # None
        THEN LET t == parse_i32(Unwrap(threshold))
             IN  IF ~t.ok THEN t
                 ELSE IF t.val \notin POINT_THRESHOLD_VALUES
                 THEN Err("Invalid POINT_THRESHOLD value")
                 ELSE Ok(OverPointThreshold(t.val))
        ELSE Err("Invalid strategy format")

\* impl FromStr for DigestStrategy, from_str on the characters
DigestStrategy_from_str(s) ==
    LET top_n     == strip_prefix(s, TOP_N_PREFIX)
        threshold == strip_prefix(s, POINT_THRESHOLD_PREFIX)
    IN  IF top_n # None
        THEN LET n == parse_usize(Unwrap(top_n))
             IN  IF ~n.ok THEN n
                 ELSE IF n.val \notin TOP_N_VALUES
                 THEN Err("Invalid TOP_N value")
                 ELSE Ok(TopN(n.val))
        ELSE IF threshold # None
        THEN LET t == parse_i32(Unwrap(threshold))
             IN  IF ~t.ok THEN t
                 ELSE IF t.val \notin POINT_THRESHOLD_VALUES
                 THEN Err("Invalid POINT_THRESHOLD value")
                 ELSE Ok(OverPointThreshold(t.val))
        ELSE Err("Invalid strategy format")

\* DigestStrategy::all
all ==
    { TopN(n) : n \in TOP_N_VALUES }
        \cup { OverPointThreshold(t) : t \in POINT_THRESHOLD_VALUES }

\* strategy values that can be formatted: the configured ones and some
\* that are not
FormattedStrategies ==
    all \cup { TopN(7), TopN(100), OverPointThreshold(10), OverPointThreshold(0) }

\* strings handed to from_str: a kind prefix, known or not, and up to
\* three characters behind it
PrefixInputs ==
    { TOP_N_PREFIX, POINT_THRESHOLD_PREFIX, <<>>,
      <<"T", "O", "P", "_", "N">>, <<"t", "o", "p", "_", "n", "#">>,
      <<"T", "O", "P", "_", "K", "#">> }

ValueChars == { "0", "1", "2", "5", "+", "-", "x" }

ValueInputs == UNION { [ 1..n -> ValueChars ] : n \in 0..3 }

StrategyStrings == { prefix \o value : prefix \in PrefixInputs, value \in ValueInputs }

\* strategy.to_string(), and DigestStrategy::from_str on the result
Format(strategy) ==
    /\ conv' = [ op       |-> "to_string",
                 strategy |-> strategy,
                 ret      |-> fmt(strategy),
                 parsed   |-> DigestStrategy_from_str(fmt(strategy)) ]
    /\ UNCHANGED <<digestVars, subVars, apiVars, queryVars, batch, running>>

\* DigestStrategy::from_str(s)
Parse(s) ==
    /\ conv' = [ op |-> "from_str", s |-> s, ret |-> DigestStrategy_from_str(s) ]
    /\ UNCHANGED <<digestVars, subVars, apiVars, queryVars, batch, running>>

(***************************************************************************)
(* storage/dynamo.rs: the generic document value (serde_json::Value) and   *)
(* its stored form (AttributeValue).  A number of the document is an       *)
(* unsigned integer, a negative integer or a float; an integer is held by  *)
(* the decimal digits of its magnitude, a float by its shortest decimal    *)
(* text, so that the 64 bit limits are the real ones.                      *)
(***************************************************************************)
Null == [ t |-> "Null" ]

Bool(b) == [ t |-> "Bool", b |-> b ]

PosInt(digits) == [ t |-> "Number", k |-> "PosInt", text |-> digits ]

NegInt(digits) == [ t |-> "Number", k |-> "NegInt", text |-> digits ]

Float(shortest) == [ t |-> "Number", k |-> "Float", text |-> shortest ]

String(s) == [ t |-> "String", s |-> s ]

Array(arr) == [ t |-> "Array", arr |-> arr ]

Object(map) == [ t |-> "Object", map |-> map ]

AvNull == [ t |-> "Null", null |-> TRUE ]

AvBool(b) == [ t |-> "Bool", b |-> b ]

AvN(n) == [ t |-> "N", n |-> n ]

AvS(s) == [ t |-> "S", s |-> s ]

AvL(list) == [ t |-> "L", list |-> list ]

AvM(map) == [ t |-> "M", map |-> map ]

\* a binary value, which no document value is stored as
AvB == [ t |-> "B" ]

\* i64::MAX and the magnitude of i64::MIN
I64_MAX ==
    <<"9", "2", "2", "3", "3", "7", "2", "0", "3", "6", "8", "5", "4", "7", "7", "5",
      "8", "0", "7">>

I64_MIN_MAGNITUDE ==
    <<"9", "2", "2", "3", "3", "7", "2", "0", "3", "6", "8", "5", "4", "7", "7", "5",
      "8", "0", "8">>

U64_MAX ==
    <<"1", "8", "4", "4", "6", "7", "4", "4", "0", "7", "3", "7", "0", "9", "5", "5",
      "1", "6", "1", "5">>

\* the digits without their leading zeros
RECURSIVE Significant(_)
Significant(digits) ==
    IF Len(digits) > 1 /\ digits[1] = "0" THEN Significant(Tail(digits)) ELSE digits

\* a <= b for two numbers written without leading zeros
AtMost(a, b) ==
    \/ Len(a) < Len(b)
    \/ /\ Len(a) = Len(b)
       /\ \/ a = b
          \/ \E i \in 1..Len(a) :
                 /\ SubSeq(a, 1, i - 1) = SubSeq(b, 1, i - 1)
                 /\ DigitValue(a[i]) < DigitValue(b[i])

\* Number::to_string
Number_to_string(number) ==
    IF number.k = "NegInt" THEN <<"-">> \o number.text ELSE number.text

\* str::parse::<i64>, and Value::from(i64)
parse_i64(n) ==
    LET signed    == n # <<>> /\ n[1] \in { "+", "-" }
        negative  == signed /\ n[1] = "-"
        digits    == IF signed THEN Tail(n) ELSE n
        magnitude == Significant(digits)
    IN  IF ~AllDigits(digits) THEN Err("invalid digit found in string")
        ELSE IF negative
        THEN IF ~AtMost(magnitude, I64_MIN_MAGNITUDE)
             THEN Err("number too small to fit in target type")
             ELSE IF magnitude = <<"0">> THEN Ok(PosInt(magnitude))
             ELSE Ok(NegInt(magnitude))
        ELSE IF ~AtMost(magnitude, I64_MAX)
             THEN Err("number too large to fit in target type")
             ELSE Ok(PosInt(magnitude))

\* the characters of a decimal text of a float
FloatChars == { "+", "-", ".", "e" }

\* str::parse::<f64>, and Value::from(f64): the float nearest to the text
parse_f64(n) ==
    IF /\ n # <<>>
       /\ \A i \in 1..Len(n) : IsDigit(n[i]) \/ n[i] \in FloatChars
       /\ \E i \in 1..Len(n) : IsDigit(n[i])
    THEN Ok(Float(n))
    ELSE Err("invalid float literal")

\* json_to_av
RECURSIVE json_to_av(_)
json_to_av(value) ==
    CASE value.t = "Null"   -> AvNull
      [] value.t = "Bool"   -> AvBool(value.b)
      [] value.t = "Number" -> AvN(Number_to_string(value))
      [] value.t = "String" -> AvS(value.s)
      [] value.t = "Array"  -> AvL([ i \in 1..Len(value.arr) |-> json_to_av(value.arr[i]) ])
      [] value.t = "Object" -> AvM([ k \in DOMAIN value.map |-> json_to_av(value.map[k]) ])

\* av_to_json
RECURSIVE av_to_json(_)
av_to_json(av) ==
    CASE av.t = "Null" -> Null
      [] av.t = "Bool" -> Bool(av.b)
      [] av.t = "N"    ->
             LET integer == parse_i64(av.n)
                 float   == parse_f64(av.n)
             IN  IF integer.ok THEN integer.val
                 ELSE IF float.ok THEN float.val
                 ELSE String(av.n)
      [] av.t = "S"    -> String(av.s)
      [] av.t = "L"    -> Array([ i \in 1..Len(av.list) |-> av_to_json(av.list[i]) ])
      [] av.t = "M"    -> Object([ k \in DOMAIN av.map |-> av_to_json(av.map[k]) ])
      [] OTHER         -> Null

\* the numbers of the documents: integers up to the limits of 64 bits, and
\* floats by their shortest text
IntegerInputs ==
    { PosInt(<<"0">>), PosInt(<<"4", "2">>), PosInt(I64_MAX),
      PosInt(I64_MIN_MAGNITUDE), PosInt(U64_MAX),
      NegInt(<<"7">>), NegInt(I64_MIN_MAGNITUDE) }

FloatInputs ==
    { Float(<<"1", ".", "0">>), Float(<<"-", "0", ".", "5">>),
      Float(<<"1", "e", "2", "0">>), Float(<<"3", ".", "1", "4">>) }

LeafInputs ==
    { Null, Bool(TRUE), Bool(FALSE), String(""), String("a"), String("42") }
        \cup IntegerInputs \cup FloatInputs

\* the values of the fields of a map
FieldInputs == { Null, String("a"), PosInt(<<"4", "2">>), Array(<<>>) }

FieldNames == { "objectID", "points" }

MapInputs ==
    { Object(map) : map \in UNION { [ names -> FieldInputs ] : names \in SUBSET FieldNames } }

\* arrays of leaves, of maps, and of arrays of maps
ElementInputs == LeafInputs \cup MapInputs

ArrayInputs ==
    { Array(<<>>) }
        \cup { Array(<<e>>) : e \in ElementInputs }
        \cup { Array(<<m, e>>) : m \in MapInputs, e \in { Null, PosInt(<<"4", "2">>) } }
        \cup { Array(<<Array(<<m, n>>)>>) : m \in { Object(<<>>) }, n \in MapInputs }

JsonInputs == LeafInputs \cup MapInputs \cup ArrayInputs

\* stored values that json_to_av does not write
ForeignInputs == { AvB, AvN(<<"x">>), AvN(<<"+", "7">>), AvL(<<AvB>>) }

\* json_to_av(v), and av_to_json on what it returned
Encode(value) ==
    /\ conv' = [ op |-> "json_to_av", json |-> value, ret |-> json_to_av(value),
                 back |-> av_to_json(json_to_av(value)) ]
    /\ UNCHANGED <<digestVars, subVars, apiVars, queryVars, batch, running>>

\* av_to_json(av)
Decode(av) ==
    /\ conv' = [ op |-> "av_to_json", av |-> av, ret |-> av_to_json(av) ]
    /\ UNCHANGED <<digestVars, subVars, apiVars, queryVars, batch, running>>

(***************************************************************************)
(* storage/dynamo.rs: the stored SUBSCRIBER items as any writer of the     *)
(* table may have left them, with an attribute missing or holding a text   *)
(* that does not parse.                                                    *)
(***************************************************************************)
StoredKeys == { "a@x.io", "b@x.io" }

StoredAttributes == { "email", "strategy", "subscribed_at", "unsubscribe_token" }

\* the item of a key, as upsert_subscriber writes it
StoredItem(sk) == SubscriberItem(sk, Rank(sk))

\* the item without one of its attributes
Without(item, name) == [ n \in (DOMAIN item) \ { name } |-> item[n] ]

\* the item of a key, written well or not
StoredItems(sk) ==
    { StoredItem(sk) }
        \cup { Without(StoredItem(sk), name) : name \in StoredAttributes }
        \cup { [ StoredItem(sk) EXCEPT !.email = "not-an-email" ],
               [ StoredItem(sk) EXCEPT !.strategy = <<"TOP_N", 7>> ],
               [ StoredItem(sk) EXCEPT !.strategy = <<"TOP_K", 10>> ],
               [ StoredItem(sk) EXCEPT !.subscribed_at = 0 - 1 ],
               [ StoredItem(sk) EXCEPT !.unsubscribe_token = 0 ] }

\* the SUBSCRIBER partition: at most one item per sort key
StoredTables ==
    { t \in SUBSET UNION { StoredItems(sk) : sk \in StoredKeys } :
          \A it1, it2 \in t : it1.SK = it2.SK => it1 = it2 }

\* get_subscriber_by_email is called and returns
LookupByEmail(email) ==
    /\ lookup' = [ op    |-> "get_subscriber_by_email",
                   email |-> email,
                   ret   |-> get_subscriber_by_email(subscribers, email) ]
    /\ UNCHANGED <<scan, digestVars, subVars, apiVars, batch, conv, running>>

(***************************************************************************)
(* api/handlers.rs subscribe_post and unsubscribe.rs remove_subscriber,    *)
(* one Storage call at a time: each handler awaits its read and then its   *)
(* write, and the calls of other requests are served in between.           *)
(***************************************************************************)
RaceEmails == { "a@x.io" }

\* the requests of the mailbox, all of them passing the checks
RaceRequests ==
    { SubscribeRequest(e, to_string(st), "", "tok") :
          e \in RaceEmails, st \in SubscribeStrategies }

\* the bounces of the mailbox: a permanent one, which removes it, and a
\* transient one, which does not
RaceNotifications ==
    { n \in Notifications :
          n.bounce # None /\ Unwrap(n.bounce).bounced_recipients = <<"A@x.io">> }

\* subscribe_post up to its read of the Subscriber (lines 165-221): the
\* request is checked and get_subscriber_by_email has answered
SubscribeRead(req) ==
    LET email    == EmailAddress_from_str(req.email)
        strategy == from_str(req.strategy)
        existing == get_subscriber_by_email(subscribers, email.val)
    IN  /\ running.subscribe.pc \in { "idle", "done" }
        /\ running' = [ running EXCEPT !.subscribe =
                            [ pc       |-> IF existing.ok THEN "read" ELSE "done",
                              req      |-> req,
                              email    |-> email.val,
                              strategy |-> strategy.val,
                              existing |-> existing,
                              response |-> IF existing.ok THEN <<>> ELSE subscribe_500,
                              \* history: the Subscriber items at the write
                              before   |-> {} ] ]
        /\ UNCHANGED <<subscribers, pending, clock, issued, verify, verifyPrev, apiCall,
                       verified, digestVars, queryVars, batch, conv>>

\* subscribe_post from the answer of the read on (lines 222-277): the
\* strategy of the Subscriber it read is updated, or a pending record is
\* created, and the email is sent
SubscribeWrite ==
    LET call == running.subscribe
        out  == IF call.existing.val # None
                THEN After("get_subscriber_by_email",
                           update_existing(subscribers, pending, Unwrap(call.existing.val),
                                           call.email, call.strategy, MailerOk))
                ELSE After("get_subscriber_by_email",
                           create_new(subscribers, pending, call.email, call.strategy,
                                      MailerOk, Now, issued))
    IN  /\ call.pc = "read"
        /\ issued + out.generated <= MaxApiTokens
        /\ subscribers' = out.subscribers
        /\ pending' = out.pending
        /\ issued' = issued + out.generated
        /\ running' = [ running EXCEPT !.subscribe =
                            [ call EXCEPT !.pc = "done",
                                          !.response = out.response,
                                          !.before = subscribers ] ]
        /\ apiCall' = [ op       |-> "subscribe_post",
                        req      |-> call.req,
                        captcha  |-> CaptchaPass,
                        mailer   |-> MailerOk,
                        response |-> out.response,
                        sent     |-> out.sent,
                        storage  |-> out.storage ]
        /\ UNCHANGED <<clock, verify, verifyPrev, verified, digestVars, queryVars, batch, conv>>

\* remove_subscriber up to the answer of its lookup (lines 11-14)
RemoveLookup(token) ==
    LET found == get_subscriber_by_unsubscribe_token(subscribers, token)
        goes  == found.ok /\ found.val # None
    IN  /\ running.remove.pc \in { "idle", "done" }
        /\ running' = [ running EXCEPT !.remove =
                            [ pc      |-> IF goes THEN "found" ELSE "done",
                              token   |-> token,
                              found   |-> IF found.ok THEN found.val ELSE None,
                              ret     |-> IF found.ok THEN Ok(FALSE) ELSE found,
                              \* history: the items deleted, and the
                              \* Subscriber items after the delete
                              removed |-> {},
                              after   |-> {} ] ]
        /\ apiCall' = IF goes THEN apiCall
                      ELSE [ op |-> "remove_subscriber", token |-> token,
                             ret |-> IF found.ok THEN Ok(FALSE) ELSE found,
                             removed |-> {} ]
        /\ UNCHANGED <<subscribers, pending, clock, issued, verify, verifyPrev,
                       verified, digestVars, queryVars, batch, conv>>

\* remove_subscriber from the answer of the lookup on (lines 16-18): the
\* delete by the email of the Subscriber it found
RemoveDelete ==
    LET call  == running.remove
        after == storage_remove_subscriber(subscribers, Unwrap(call.found).email)
    IN  /\ call.pc = "found"
        /\ subscribers' = after
        /\ running' = [ running EXCEPT !.remove =
                            [ call EXCEPT !.pc = "done",
                                          !.ret = Ok(TRUE),
                                          !.removed = subscribers \ after,
                                          !.after = after ] ]
        /\ apiCall' = [ op |-> "remove_subscriber", token |-> call.token, ret |-> Ok(TRUE),
                        removed |-> { it.SK : it \in subscribers \ after } ]
        /\ UNCHANGED <<pending, clock, issued, verify, verifyPrev, verified,
                       digestVars, queryVars, batch, conv>>

(***************************************************************************)
(* digest_builder.rs over three days: the digests of the second and the    *)
(* third day are built on a table that holds the digest of the first.      *)
(***************************************************************************)
WindowStrategies == { TopN(1), OverPointThreshold(200) }

\* the candidates of a day: main.rs:91 hands them over in no fixed order
WindowLists ==
    { <<Post("a", 500), Post("b", 200)>>,
      <<Post("b", 200), Post("a", 500), Post("c", 100)>>,
      <<Post("c", 200), Post("b", 200)>>,
      <<Post("a", 500)>> }

FirstDate == 6

\* the days after the first
WindowDates == { d \in BuildDates : datestamp(d) > datestamp(FirstDate) }

\* the table after build_digest has run once, for the first day, on an
\* empty table
FirstDayTables ==
    { save_digest({}, to_string(st), FirstDate,
                  select(st, sort_by_points(filter_sent_posts(posts, None)))) :
          st \in WindowStrategies, posts \in WindowLists }

(***************************************************************************)
(* post_snapshotter.rs, post_fetcher.rs: the candidates of a day, and the  *)
(* TopN digests built from them with the configured values of n.           *)
(***************************************************************************)
\* DigestStrategy::max_top_n
max_top_n == CHOOSE n \in TOP_N_VALUES : \A m \in TOP_N_VALUES : m <= n

\* DigestStrategy::min_point_threshold
min_point_threshold ==
    CHOOSE t \in POINT_THRESHOLD_VALUES : \A u \in POINT_THRESHOLD_VALUES : t <= u

\* a story of the upstream, its points spread between 0 and 300
Story(id) == Post(id, ((id * 7) % 13) * 25)

\* the stories the upstream holds for the days looked back on, in the
\* order it returns them
Hits(first, count) == [ i \in 1..count |-> Story(first + i - 1) ]

\* fetch_top_k: hitsPerPage = top_k
fetch_top_k(hits, top_k) == Elems(Take(hits, top_k))

\* fetch_by_points: numericFilters points >= points
fetch_by_points(hits, points) == { p \in Elems(hits) : p.points >= points }

\* AlgoliaPostFetcher::fetch: the two answers in one map keyed by id
fetch(hits, top_k, points) == fetch_top_k(hits, top_k) \cup fetch_by_points(hits, points)

\* PostSnapshotter::snapshot
snapshot(hits) == fetch(hits, 2 * max_top_n, min_point_threshold)

\* into_values().collect(): the values of the map in one of its orders,
\* here by id, upwards or downwards
into_values(posts, upwards) ==
    [ i \in 1..Cardinality(posts) |->
          CHOOSE p \in posts :
              Cardinality({ q \in posts : IF upwards THEN q.object_id < p.object_id
                                          ELSE q.object_id > p.object_id }) = i - 1 ]

\* the upstream of a run: fewer stories than 2 * max_top_n, exactly as
\* many, and more
UpstreamInputs ==
    { [ first |-> 1, count |-> 60, upwards |-> TRUE ],
      [ first |-> 1, count |-> 100, upwards |-> TRUE ],
      [ first |-> 1, count |-> 100, upwards |-> FALSE ],
      [ first |-> 31, count |-> 130, upwards |-> TRUE ] }

\* main.rs:87-91: all_posts
SnapshotLists ==
    { into_values(snapshot(Hits(u.first, u.count)), u.upwards) : u \in UpstreamInputs }

TopNStrategies == { TopN(n) : n \in TOP_N_VALUES }

\* two days running
TopNDates == { d \in BuildDates : datestamp(d) <= 1 }

(***************************************************************************)
(* Specifications.                                                         *)
(***************************************************************************)
Init ==
    /\ digests = {}
    /\ build = [pc |-> "idle"]
    /\ nbuilds = 0
    /\ inOrder = TRUE
    /\ subscribers = {}
    /\ pending = {}
    /\ clock = 0
    /\ issued = 0
    /\ verify = NoCall
    /\ verifyPrev = NoCall
    /\ apiCall = NoApiCall
    /\ verified = {}
    /\ scan = NoApiCall
    /\ lookup = NoApiCall
    /\ batch = NoBatch
    /\ conv = NoApiCall
    /\ running = NoRunning

\* the digest builder
Next ==
    \/ \E strategy \in BuildStrategies, date \in BuildDates, posts \in CandidateLists :
           BuildFetch(strategy, date, posts)
    \/ BuildSave
    \/ BuildReturn

Spec == Init /\ [][Next]_vars

\* the subscription lifecycle
NextSub ==
    \/ \E email \in EmailInputs, strategy \in SubscribeStrategies :
           CreatePending(email, strategy)
    \/ \E email \in EmailInputs, token \in TokenInputs : Verify(email, token)
    \/ Tick
    \/ \E item \in pending : TtlReclaim(item)

SpecSub == Init /\ [][NextSub]_vars

\* the API and the notification handler
NextApi ==
    \/ \E c \in SubscribeCalls : SubscribePost(c.req, c.captcha, c.mailer)
    \/ \E email \in EmailInputs, token \in ApiTokenInputs : ApiVerify(email, token)
    \/ \E token \in ApiTokenInputs : RemoveSubscriber(token)
    \/ \E notification \in Notifications : HandleNotification(notification, NoFailure)

SpecApi == Init /\ [][NextApi]_vars

\* subscriptions, verifications and changes of strategy as the clock
\* advances
NextUpdate ==
    \/ \E c \in UpdateCalls : SubscribePost(c.req, c.captcha, c.mailer)
    \/ \E email \in UpdateEmails, token \in ApiTokenInputs : ApiVerify(email, token)
    \/ ApiTick

SpecUpdate == Init /\ [][NextUpdate]_vars

\* the notification handler over a storage whose removals may fail
NextBounce ==
    \/ \E c \in UpdateCalls : SubscribePost(c.req, c.captcha, c.mailer)
    \/ \E email \in UpdateEmails, token \in ApiTokenInputs : ApiVerify(email, token)
    \/ \E notification \in Notifications, failing \in FailingKeys :
           HandleNotification(notification, failing)

SpecBounce == Init /\ [][NextBounce]_vars

\* the four routes of the API, with every request the dispatcher hands
\* to the handlers
NextHandlers ==
    \/ \E c \in HandlerCalls : SubscribePost(c.req, c.captcha, c.mailer)
    \/ \E maybe_email \in MaybeEmails, maybe_token \in TokenStrings :
           VerifyGet(maybe_email, maybe_token)
    \/ \E token_str \in TokenStrings : UnsubscribeGet(token_str)
    \/ \E token_str \in TokenStrings, body \in Bodies : UnsubscribePost(token_str, body)

SpecHandlers == Init /\ [][NextHandlers]_vars

\* the scheduled handler on successive days, over a storage whose calls
\* may fail
InitBatch ==
    /\ digests = {}
    /\ build = [pc |-> "idle"]
    /\ nbuilds = 0
    /\ inOrder = TRUE
    /\ subscribers \in BatchTables
    /\ pending = {}
    /\ clock = 0
    /\ issued = 0
    /\ verify = NoCall
    /\ verifyPrev = NoCall
    /\ apiCall = NoApiCall
    /\ verified = {}
    /\ scan = NoApiCall
    /\ lookup = NoApiCall
    /\ batch = NoBatch
    /\ conv = NoApiCall
    /\ running = NoRunning

NextBatch ==
    \/ \E date \in BatchDates, posts \in BatchPosts, refused \in MailerRefusals :
           BatchStart(date, posts, refused)
    \/ \E strategy \in BatchStrategies, ok \in BOOLEAN : TaskFetch(strategy, ok)
    \/ \E strategy \in BatchStrategies, ok \in BOOLEAN : TaskSave(strategy, ok)
    \/ \E ok \in BOOLEAN : CollectAndList(ok)
    \/ SendPull
    \/ \E email \in batch.in_flight : SendComplete(email)
    \/ HandlerReturn

SpecBatch == InitBatch /\ [][NextBatch]_vars

\* one run of the scheduled handler for more subscribers than sends may
\* be in flight
InitSend ==
    /\ digests = {}
    /\ build = [pc |-> "idle"]
    /\ nbuilds = 0
    /\ inOrder = TRUE
    /\ subscribers = ManySubscribers
    /\ pending = {}
    /\ clock = 0
    /\ issued = 0
    /\ verify = NoCall
    /\ verifyPrev = NoCall
    /\ apiCall = NoApiCall
    /\ verified = {}
    /\ scan = NoApiCall
    /\ lookup = NoApiCall
    /\ batch = NoBatch
    /\ conv = NoApiCall
    /\ running = NoRunning

NextSend ==
    \/ \E posts \in BatchPosts, refused \in MailerRefusals : BatchStart(6, posts, refused)
    \/ \E strategy \in BatchStrategies : TaskFetch(strategy, TRUE)
    \/ \E strategy \in BatchStrategies : TaskSave(strategy, TRUE)
    \/ CollectAndList(TRUE)
    \/ SendPull
    \/ \E email \in batch.in_flight : SendComplete(email)
    \/ HandlerReturn

SpecSend == InitSend /\ [][NextSend]_vars

\* the strategies formatted and the strings parsed
NextStrategy ==
    \/ \E strategy \in FormattedStrategies : Format(strategy)
    \/ \E s \in StrategyStrings : Parse(s)

SpecStrategy == Init /\ [][NextStrategy]_vars

\* the document values encoded and the stored values decoded
NextCodec ==
    \/ \E value \in JsonInputs : Encode(value)
    \/ \E av \in ForeignInputs : Decode(av)

SpecCodec == Init /\ [][NextCodec]_vars

\* the queries over a stored SUBSCRIBER partition
InitQuery ==
    /\ digests = {}
    /\ build = [pc |-> "idle"]
    /\ nbuilds = 0
    /\ inOrder = TRUE
    /\ subscribers \in QueryTables
    /\ pending = {}
    /\ clock = 0
    /\ issued = 0
    /\ verify = NoCall
    /\ verifyPrev = NoCall
    /\ apiCall = NoApiCall
    /\ verified = {}
    /\ scan = NoApiCall
    /\ lookup = NoApiCall
    /\ batch = NoBatch
    /\ conv = NoApiCall
    /\ running = NoRunning

NextQuery ==
    \/ ScanStart
    \/ \E page_size \in 1..MaxPage, more \in BOOLEAN : ScanQuery(page_size, more)
    \/ \E token \in LookupTokens : LookupByToken(token)

SpecQuery == InitQuery /\ [][NextQuery]_vars

\* the reads of a SUBSCRIBER partition that holds malformed items
InitStored ==
    /\ digests = {}
    /\ build = [pc |-> "idle"]
    /\ nbuilds = 0
    /\ inOrder = TRUE
    /\ subscribers \in StoredTables
    /\ pending = {}
    /\ clock = 0
    /\ issued = 0
    /\ verify = NoCall
    /\ verifyPrev = NoCall
    /\ apiCall = NoApiCall
    /\ verified = {}
    /\ scan = NoApiCall
    /\ lookup = NoApiCall
    /\ batch = NoBatch
    /\ conv = NoApiCall
    /\ running = NoRunning

NextStored ==
    \/ ScanStart
    \/ \E page_size \in 1..MaxPage, more \in BOOLEAN : ScanQuery(page_size, more)
    \/ \E token \in LookupTokens : LookupByToken(token)
    \/ \E email \in EmailInputs : LookupByEmail(email)

SpecStored == InitStored /\ [][NextStored]_vars

\* the requests of one mailbox, the Storage calls of a subscribe request
\* and of a removal served one at a time
NextRace ==
    \/ \E req \in RaceRequests : SubscribeRead(req)
    \/ SubscribeWrite
    \/ \E email \in RaceEmails, token \in ApiTokenInputs : ApiVerify(email, token)
    \/ \E token \in ApiTokenInputs : RemoveLookup(token)
    \/ RemoveDelete
    \/ \E notification \in RaceNotifications : HandleNotification(notification, NoFailure)

SpecRace == Init /\ [][NextRace]_vars

\* the builds of the days after the first
InitWindow ==
    /\ digests \in FirstDayTables
    /\ build = [pc |-> "idle"]
    /\ nbuilds = 0
    /\ inOrder = TRUE
    /\ subscribers = {}
    /\ pending = {}
    /\ clock = 0
    /\ issued = 0
    /\ verify = NoCall
    /\ verifyPrev = NoCall
    /\ apiCall = NoApiCall
    /\ verified = {}
    /\ scan = NoApiCall
    /\ lookup = NoApiCall
    /\ batch = NoBatch
    /\ conv = NoApiCall
    /\ running = NoRunning

NextWindow ==
    \/ \E strategy \in WindowStrategies, date \in WindowDates, posts \in WindowLists :
           BuildFetch(strategy, date, posts)
    \/ BuildSave
    \/ BuildReturn

SpecWindow == InitWindow /\ [][NextWindow]_vars

\* the TopN digests of two days, built from the snapshots
NextTopN ==
    \/ \E strategy \in TopNStrategies, date \in TopNDates, posts \in SnapshotLists :
           BuildFetch(strategy, date, posts)
    \/ BuildSave
    \/ BuildReturn

SpecTopN == Init /\ [][NextTopN]_vars

(***************************************************************************)
(* Properties of the digest builder.                                       *)
(***************************************************************************)
BuildKind(kind) == build.pc = "returned" /\ build.strategy.kind = kind

Returned == Unwrap(build.ret)

\* the items stored for a strategy and a calendar day
Stored(strategy, day) ==
    { it \in digests : it.PK = digest_pk(to_string(strategy)) /\ it.SK = day }

\* the ids of the digest stored for the call's strategy under the day
\* before the call's date
PriorIds ==
    UNION { Ids(it.posts) : it \in Stored(build.strategy, datestamp(build.date) - 1) }

\* the positions of the candidates that are not in the prior-day digest
Unsent == { i \in 1..Len(build.posts) : build.posts[i].object_id \notin PriorIds }

\* the position of a returned post in the candidate list
Pos(p) == CHOOSE i \in 1..Len(build.posts) : build.posts[i] = p

Min(a, b) == IF a < b THEN a ELSE b

\* C1: build_digest returns no post whose object_id is in the digest
\* stored for the same strategy under date minus one day.
C1_NoPriorDayPost ==
    build.pc = "returned" => Ids(Returned) \cap PriorIds = {}

C1_Witness ==
    /\ build.pc = "returned"
    /\ Returned # <<>>
    /\ Ids(build.posts) \cap PriorIds # {}

\* C2 as stated: in every reachable state, whatever the order of the
\* dates, the digest stored for (strategy, day) shares no id with the
\* digest stored for (strategy, day - 1).
AdjacentDisjoint ==
    \A it1, it2 \in digests :
        (it1.PK = it2.PK /\ it2.SK = it1.SK + 1) => Ids(it1.posts) \cap Ids(it2.posts) = {}

C2_AnyOrder == AdjacentDisjoint

\* C2 amended: as long as no build_digest call was for a day earlier than
\* a day already stored for its strategy, the digest stored for
\* (strategy, day) shares no id with the digest stored for
\* (strategy, day - 1).
C2_InOrder == inOrder => AdjacentDisjoint

C2_Witness ==
    /\ inOrder
    /\ build.pc = "returned"
    /\ Returned # <<>>
    /\ Ids(build.posts) \cap PriorIds # {}
    /\ nbuilds = 2

\* C3: TopN(n) returns exactly min(n, number of candidates not in the
\* prior-day digest) posts, non-increasing by points.
C3_TopNLengthAndOrder ==
    BuildKind("TopN") =>
        /\ Len(Returned) = Min(build.strategy.value, Cardinality(Unsent))
        /\ \A i, j \in 1..Len(Returned) :
               i < j => Returned[i].points >= Returned[j].points

C3_Witness ==
    /\ BuildKind("TopN")
    /\ Cardinality(Unsent) > build.strategy.value
    /\ Len(Returned) = 2
    /\ Returned[1].points > Returned[2].points
    /\ Pos(Returned[1]) > Pos(Returned[2])

\* C4: the TopN output is the first n elements of the stable
\* descending-by-points sort of the candidates not in the prior-day
\* digest: every returned post is such a candidate, returned posts are
\* ordered by points and, on equal points, by input position, and every
\* such candidate left out comes after every returned post in that order.
Before(p, q) ==
    \/ p.points > q.points
    \/ p.points = q.points /\ Pos(p) < Pos(q)

C4_TopNStable ==
    BuildKind("TopN") =>
        /\ Len(Returned) = Min(build.strategy.value, Cardinality(Unsent))
        /\ \A i \in 1..Len(Returned) : \E u \in Unsent : build.posts[u] = Returned[i]
        /\ \A i, j \in 1..Len(Returned) : i < j => Before(Returned[i], Returned[j])
        /\ \A u \in Unsent :
               build.posts[u] \notin Elems(Returned) =>
                   \A i \in 1..Len(Returned) : Before(Returned[i], build.posts[u])

C4_Witness ==
    /\ BuildKind("TopN")
    /\ \E u, v \in Unsent :
           /\ u < v
           /\ build.posts[u].points = build.posts[v].points
           /\ build.posts[u] \in Elems(Returned)
           /\ build.posts[v] \notin Elems(Returned)

\* C5: PointThreshold(t) returns exactly the candidates that are not in
\* the prior-day digest and have points >= t, each once.
C5_ThresholdExact ==
    BuildKind("OverPointThreshold") =>
        /\ Elems(Returned) =
               { build.posts[u] : u \in { v \in Unsent : build.posts[v].points >= build.strategy.value } }
        /\ Len(Returned) = Cardinality(Elems(Returned))

C5_Witness ==
    /\ BuildKind("OverPointThreshold")
    /\ \E p \in Elems(Returned) : p.points = build.strategy.value
    /\ \E i \in Unsent : build.posts[i].points < build.strategy.value
    /\ \E i \in 1..Len(build.posts) : i \notin Unsent /\ build.posts[i].points >= build.strategy.value

\* C6: once the save has completed, and so when build_digest returns
\* Ok(list), exactly one digest is stored under (strategy, date) and it is
\* the list, also when the list is empty.
C6_StoredBeforeReturn ==
    /\ build.pc = "saved" =>
           Stored(build.strategy, datestamp(build.date)) =
               { [PK |-> digest_pk(to_string(build.strategy)),
                  SK |-> datestamp(build.date),
                  posts |-> Unwrap(build.selected_posts)] }
    /\ build.pc = "returned" =>
           /\ build.ret = build.selected_posts
           /\ Stored(build.strategy, datestamp(build.date)) =
                  { [PK |-> digest_pk(to_string(build.strategy)),
                     SK |-> datestamp(build.date),
                     posts |-> Returned] }

\* a recomputation that replaces a non-empty digest by an empty one
C6_Witness ==
    /\ build.pc = "returned"
    /\ Returned = <<>>
    /\ build.overwritten # None
    /\ Unwrap(build.overwritten) # <<>>

(***************************************************************************)
(* Properties of the subscription lifecycle.                               *)
(***************************************************************************)
\* the Subscriber items stored for an email
SubscriberItems(email) == { it \in subscribers : it.SK = to_lowercase(email) }

\* the call that has just returned presented the token of the pending
\* record stored for its email
ValidToken(call) ==
    /\ call.pc = "returned"
    /\ call.pending # None
    /\ Unwrap(call.pending).token = call.token

ReturnedSubscriber(call) ==
    call.pc = "returned" /\ call.ret.ok /\ call.ret.val # None

\* verify is a second call with the email and token of the call before it
SameAgain ==
    /\ verifyPrev.pc = "returned"
    /\ verify.pc = "returned"
    /\ to_lowercase(verify.email) = to_lowercase(verifyPrev.email)
    /\ verify.token = verifyPrev.token

\* C7: verify_subscription with the token of the pending record stored
\* for the email returns a Subscriber for that email with the pending
\* record's strategy and leaves exactly one Subscriber item for the email,
\* the one returned; a second call with the same token returns a
\* Subscriber again and still leaves exactly one item.
C7_VerifyCreatesOneSubscriber ==
    /\ ValidToken(verify) =>
           /\ ReturnedSubscriber(verify)
           /\ LET sub == Unwrap(verify.ret.val)
              IN  /\ sub.email = to_lowercase(verify.email)
                  /\ to_string(sub.strategy) = Unwrap(verify.pending).strategy
                  /\ SubscriberItems(verify.email) =
                         { [ PK                |-> "SUBSCRIBER",
                             SK                |-> to_lowercase(verify.email),
                             email             |-> to_lowercase(verify.email),
                             strategy          |-> Unwrap(verify.pending).strategy,
                             subscribed_at     |-> sub.subscribed_at,
                             unsubscribe_token |-> sub.unsubscribe_token ] }
    /\ SameAgain =>
           /\ ReturnedSubscriber(verify)
           /\ Cardinality(SubscriberItems(verify.email)) = 1

C7_Witness ==
    /\ SameAgain
    /\ verify.email # verifyPrev.email
    /\ ReturnedSubscriber(verify)
    /\ Cardinality(subscribers) = 1

\* C8 as stated: the second of two successive verify_subscription calls
\* with the same valid token returns a Subscriber with the email, strategy
\* and unsubscribe_token of the first call's result.
C8_SecondVerifyEquivalent ==
    (SameAgain /\ ReturnedSubscriber(verify)) =>
        LET first  == Unwrap(verifyPrev.ret.val)
            second == Unwrap(verify.ret.val)
        IN  /\ second.email = first.email
            /\ second.strategy = first.strategy
            /\ second.unsubscribe_token = first.unsubscribe_token

\* C9: verify_subscription with a token different from the stored pending
\* token, or for an email without pending record, returns Ok(None) and
\* leaves the Subscriber items and the pending items as they were.
C9_NotFoundNoEffect ==
    [][ (verify'.pc = "returned" /\ ~ValidToken(verify')) =>
            /\ verify'.ret.ok
            /\ verify'.ret.val = None
            /\ subscribers' = subscribers
            /\ pending' = pending ]_vars

C9_Witness ==
    /\ verify.pc = "returned"
    /\ verify.pending # None
    /\ Unwrap(verify.pending).token # verify.token
    /\ verify.token \in 1..issued
    /\ verify.ret.val = None
    /\ subscribers # {}

\* C10 as stated: verify_subscription called with the matching token at a
\* time later than the pending record's expires_at returns not-found
\* (while the backend has not yet reclaimed the record).
C10_ExpiredNotVerified ==
    (ValidToken(verify) /\ verify.at > Unwrap(verify.pending).expires_at) =>
        (verify.ret.ok /\ verify.ret.val = None)

\* C11: at most one pending item is stored per lower-cased email, and a
\* create_pending_subscription call stores exactly one new item, with a
\* token never issued before and an expiry of 24 hours from the call, in
\* place of the item stored for the email, whose token
\* verify_subscription then answers with Ok(None); the items of other
\* emails stay.
C11_OnePendingPerEmail ==
    [][ /\ \A it1, it2 \in pending' : it1.SK = it2.SK => it1 = it2
        /\ (issued' # issued /\ pending' # pending) =>
               \E new \in pending' :
                   /\ pending' \ pending = { new }
                   /\ new.token \notin 1..issued
                   /\ new.expires_at = Now + PENDING_TTL_HOURS
                   /\ \A old \in pending :
                          IF old.SK = new.SK
                          THEN /\ old \notin pending'
                               /\ \A email \in EmailInputs :
                                      to_lowercase(email) = new.SK =>
                                          verify_subscription(subscribers', pending', email,
                                                              old.token, Now, issued').ret = Ok(None)
                          ELSE old \in pending' ]_vars

\* the token of a replaced pending record is presented and refused
C11_Witness ==
    /\ verify.pc = "returned"
    /\ verify.token = 1
    /\ verify.pending # None
    /\ Unwrap(verify.pending).token = 2
    /\ Unwrap(verify.pending).created_at > 0
    /\ verify.ret = Ok(None)
    /\ issued = 2
    /\ subscribers = {}
    /\ Cardinality(pending) = 1
    /\ clock < 3

(***************************************************************************)
(* Properties of the API.                                                  *)
(***************************************************************************)
\* the call is a subscribe_post whose request passed validation and captcha
Accepted(c) ==
    /\ c.op = "subscribe_post"
    /\ c.req.website = ""
    /\ from_str(c.req.strategy).ok
    /\ c.req.email \in EmailInputs
    /\ c.req.turnstile_token # ""
    /\ c.captcha = CaptchaPass

VerificationSubject == "Confirm your Hacker Digest subscription"

PreferenceSubject == "Your Hacker Digest preferences have been updated"

Subjects(sent) == { sent[i].subject : i \in 1..Len(sent) }

\* C12: a subscribe_post that passed validation and captcha, for an email
\* with a Subscriber, writes the requested strategy into that Subscriber,
\* leaves the pending items as they were and hands the mailer a
\* preference-update message and no verification message; for an email
\* without Subscriber it leaves the Subscriber items as they were, puts a
\* pending item with the requested strategy in place of the email's and
\* hands the mailer a verification message and no preference-update one.
C12_SubscribeRoutes ==
    [][ Accepted(apiCall') =>
            LET email    == apiCall'.req.email
                existing == SubscriberItems(email)
            IN  IF existing # {}
                THEN /\ subscribers' =
                            (subscribers \ existing)
                                \cup { [ it EXCEPT !.strategy = apiCall'.req.strategy ] :
                                           it \in existing }
                     /\ pending' = pending
                     /\ issued' = issued
                     /\ VerificationSubject \notin Subjects(apiCall'.sent)
                     /\ apiCall'.mailer.ok =>
                            /\ Len(apiCall'.sent) = 1
                            /\ apiCall'.sent[1].subject = PreferenceSubject
                            /\ apiCall'.sent[1].recipient = email
                ELSE /\ subscribers' = subscribers
                     /\ \E new \in pending' :
                            /\ pending' = { it \in pending : it.SK # to_lowercase(email) }
                                              \cup { new }
                            /\ new.SK = to_lowercase(email)
                            /\ new.strategy = apiCall'.req.strategy
                            /\ new.token \notin 1..issued
                     /\ PreferenceSubject \notin Subjects(apiCall'.sent)
                     /\ apiCall'.mailer.ok =>
                            /\ Len(apiCall'.sent) = 1
                            /\ apiCall'.sent[1].subject = VerificationSubject
                            /\ apiCall'.sent[1].recipient = email ]_vars

\* a subscriber asks for another strategy through an address of another
\* letter case while a pending record is stored for the same mailbox
C12_Witness ==
    /\ Accepted(apiCall)
    /\ apiCall.req.email = "A@x.io"
    /\ Subjects(apiCall.sent) = { PreferenceSubject }
    /\ apiCall.sent[1].old_strategy_description # apiCall.sent[1].new_strategy_description
    /\ \E it \in SubscriberItems("a@x.io") : it.strategy = apiCall.req.strategy
    /\ \E it \in pending : it.SK = "a@x.io" /\ it.strategy # apiCall.req.strategy

\* C13: in every reachable state, a subscribe request that passes
\* validation and captcha, with the mailer succeeding, gets the same
\* response from the tables without a Subscriber for its email as from
\* the tables with one; and the response a call has returned is that one.
C13_SameResponse ==
    /\ \A c \in SubscribeCalls :
           (Accepted([ op |-> "subscribe_post" ] @@ c) /\ c.mailer.ok) =>
               \A st \in SubscribeStrategies :
                   LET without == storage_remove_subscriber(subscribers, c.req.email)
                       with    == upsert_subscriber(
                                      subscribers,
                                      Subscriber_new(c.req.email, st, Now, issued))
                   IN  /\ subscribe_post(without, pending, c.req, c.captcha, c.mailer,
                                         Now, issued).response
                         = subscribe_post(with, pending, c.req, c.captcha, c.mailer,
                                          Now, issued).response
                       /\ subscribe_post(with, pending, c.req, c.captcha, c.mailer,
                                         Now, issued).response
                         = subscribe_post(subscribers, pending, c.req, c.captcha, c.mailer,
                                          Now, issued).response
    /\ (Accepted(apiCall) /\ apiCall.mailer.ok) => apiCall.response = subscribe_200

\* a subscriber's request has been answered while another address has
\* only a pending record
C13_Witness ==
    /\ Accepted(apiCall)
    /\ apiCall.mailer.ok
    /\ Subjects(apiCall.sent) = { PreferenceSubject }
    /\ apiCall.response.status = 200
    /\ \E it \in pending : SubscriberItems(it.SK) = {}

\* the items of a table stored for an email
ItemsOf(table, email) == { it \in table : it.SK = to_lowercase(email) }

\* the Subscriber item of the accepted call's email before the call
Existing(c) == CHOOSE it \in SubscriberItems(c.req.email) : TRUE

\* C14: update_subscription_strategy(existing, new), as subscribe_post
\* calls it with the Subscriber it read, stores for the email exactly the
\* item it read with only its strategy replaced by new (same email,
\* subscribed_at and unsubscribe_token), returns the strategy the item had
\* (the one named in the message as the old one), and leaves every other
\* Subscriber item and every pending item as it was.
C14_UpdateInPlace ==
    [][ (Accepted(apiCall') /\ SubscriberItems(apiCall'.req.email) # {}) =>
            LET old      == Existing(apiCall')
                existing == subscriber_from_item(old).val
                new      == from_str(apiCall'.req.strategy).val
            IN  /\ update_subscription_strategy(subscribers, existing, new).ret
                       = Ok(from_str(old.strategy).val)
                /\ update_subscription_strategy(subscribers, existing, new).subscribers
                       = subscribers'
                /\ ItemsOf(subscribers', apiCall'.req.email) =
                       { [ PK                |-> "SUBSCRIBER",
                           SK                |-> old.SK,
                           email             |-> old.email,
                           strategy          |-> apiCall'.req.strategy,
                           subscribed_at     |-> old.subscribed_at,
                           unsubscribe_token |-> old.unsubscribe_token ] }
                /\ subscribers' \ ItemsOf(subscribers', apiCall'.req.email)
                       = subscribers \ { old }
                /\ pending' = pending
                /\ apiCall'.sent[1].old_strategy_description
                       = description(from_str(old.strategy).val) ]_vars

\* a strategy is changed after the clock has advanced past subscribed_at,
\* while another Subscriber is stored
C14_Witness ==
    /\ Accepted(apiCall)
    /\ Subjects(apiCall.sent) = { PreferenceSubject }
    /\ apiCall.sent[1].old_strategy_description # apiCall.sent[1].new_strategy_description
    /\ Existing(apiCall).strategy = apiCall.req.strategy
    /\ Existing(apiCall).subscribed_at < Now
    /\ Cardinality(subscribers) = 2

\* the Subscriber items holding a token
Holders(table, token) == { it \in table : it.unsubscribe_token = token }

\* C15: remove_subscriber(token) with a token held by a Subscriber returns
\* true and deletes that Subscriber's item and no other, so that the
\* lookup by its email returns None; with a token no Subscriber holds it
\* returns false and changes nothing; in both cases a call with the same
\* token right after returns false.
C15_RemoveByToken ==
    [][ apiCall'.op = "remove_subscriber" =>
            LET held == Holders(subscribers, apiCall'.token)
            IN  /\ pending' = pending
                /\ remove_subscriber(subscribers', apiCall'.token).ret = Ok(FALSE)
                /\ IF held = {}
                   THEN /\ apiCall'.ret = Ok(FALSE)
                        /\ subscribers' = subscribers
                   ELSE /\ apiCall'.ret = Ok(TRUE)
                        /\ Cardinality(held) = 1
                        /\ subscribers' = subscribers \ held
                        /\ \A it \in held :
                               get_subscriber_by_email(subscribers', it.email) = Ok(None) ]_vars

\* one of two Subscribers has been removed by its token
C15_Witness ==
    /\ apiCall.op = "remove_subscriber"
    /\ apiCall.ret = Ok(TRUE)
    /\ Cardinality(subscribers) = 1
    /\ \E it \in subscribers : it.unsubscribe_token # apiCall.token

\* C16: every Subscriber item is stored for an email for which
\* verify_subscription was called with the token of the pending item
\* stored for that email at the call.
C16_SubscriberOnlyByVerify ==
    \A it \in subscribers : it.SK \in verified

\* a wrong token has been refused for an address with a pending record
\* while another address is subscribed
C16_Witness ==
    /\ apiCall.op = "verify_subscription"
    /\ apiCall.ret = Ok(None)
    /\ apiCall.token \in 1..issued
    /\ get_item(pending, to_lowercase(apiCall.email)) # None
    /\ SubscriberItems(apiCall.email) = {}
    /\ subscribers # {}
    /\ to_lowercase(apiCall.email) \notin verified

\* two addresses name the same mailbox (they differ in letter case only)
SameMailbox(e1, e2) == e1 = e2 \/ { e1, e2 } = { "a@x.io", "A@x.io" }

\* the recipients a notification asks to remove
Removed(notification) ==
    IF notification.event_type = "Bounce" /\ notification.bounce # None
    THEN IF Unwrap(notification.bounce).bounce_type = "Permanent"
         THEN Elems(Unwrap(notification.bounce).bounced_recipients)
         ELSE {}
    ELSE IF notification.event_type = "Complaint" /\ notification.complaint # None
    THEN Elems(Unwrap(notification.complaint).complained_recipients)
    ELSE {}

\* C17: no two Subscriber items are stored for the same mailbox, every
\* item is keyed by the lower-cased address, and the operations address
\* the item of the mailbox whatever the letter case they are given: a
\* verification, a change of strategy and a lookup by an address find the
\* one item of its mailbox, and a removal event leaves no item for the
\* mailboxes it lists.
C17_OneSubscriberPerEmail ==
    /\ \A it1, it2 \in subscribers : SameMailbox(it1.email, it2.email) => it1 = it2
    /\ \A it \in subscribers : it.SK = it.email /\ it.email \in { "a@x.io", "b@x.io" }
    /\ \A e \in EmailInputs :
           \A it \in subscribers :
               SameMailbox(it.email, e) =>
                   /\ get_subscriber_by_email(subscribers, e)
                          = Ok(Some(subscriber_from_item(it).val))
                   /\ \A rest \in storage_remove_subscriber(subscribers, e) :
                          ~SameMailbox(rest.email, e)
    /\ apiCall.op = "handle_notification" =>
           \A e \in Removed(apiCall.notification) :
               \A it \in subscribers : ~SameMailbox(it.email, e)
    /\ (apiCall.op = "verify_subscription" /\ apiCall.ret.val # None) =>
           \E it \in subscribers :
               /\ SameMailbox(it.email, apiCall.email)
               /\ it.unsubscribe_token = Unwrap(apiCall.ret.val).unsubscribe_token

\* a bounce naming the mailbox in capitals has removed one of two
\* Subscribers
C17_Witness ==
    /\ apiCall.op = "handle_notification"
    /\ Removed(apiCall.notification) = { "A@x.io" }
    /\ "a@x.io" \in verified
    /\ \A it \in subscribers : it.email = "b@x.io"
    /\ subscribers # {}

\* C18: no two Subscriber items hold the same unsubscribe_token.
C18_UniqueUnsubscribeToken ==
    \A it1, it2 \in subscribers :
        it1.unsubscribe_token = it2.unsubscribe_token => it1 = it2

\* two Subscribers are stored, with different tokens, after a change of
\* strategy of one of them
C18_Witness ==
    /\ Cardinality(subscribers) = 2
    /\ Accepted(apiCall)
    /\ Subjects(apiCall.sent) = { PreferenceSubject }
    /\ Cardinality({ it.unsubscribe_token : it \in subscribers }) = 2

Listed == { scan.subscribers[i] : i \in 1..Len(scan.subscribers) }

\* C20: get_all_subscribers returns Ok with every stored Subscriber
\* exactly once, whatever the sizes of the pages; while it runs, each query
\* starts from the last_evaluated_key of the page before, which is the key
\* of the last Subscriber listed, no Subscriber is listed twice, and it
\* returns after at most one query more than there are stored items.
C20_ListsAllOnce ==
    /\ scan.op = "returned" =>
           /\ scan.ret.ok
           /\ Len(scan.ret.val) = Cardinality(subscribers)
           /\ { scan.ret.val[i] : i \in 1..Len(scan.ret.val) }
                  = { subscriber_from_item(it).val : it \in subscribers }
    /\ scan.op = "querying" =>
           /\ Len(scan.subscribers) = Cardinality(Listed)
           /\ scan.pages > 0 =>
                  /\ scan.exclusive_start_key # None
                  /\ scan.subscribers # <<>>
                  /\ Unwrap(scan.exclusive_start_key)
                         = scan.subscribers[Len(scan.subscribers)].email
           /\ scan.pages = 0 => scan.exclusive_start_key = None
    /\ scan.op \in { "querying", "returned" } => scan.pages <= Cardinality(subscribers) + 1

\* three Subscribers have been listed in three queries
C20_Witness ==
    /\ scan.op = "returned"
    /\ scan.pages = 3
    /\ Len(scan.ret.val) = 3

(***************************************************************************)
(* Properties of the notification handler.                                 *)
(***************************************************************************)
\* a string that parses as an address
WellFormed(e) == e \in { "a@x.io", "A@x.io", "b@x.io" }

\* the removal of the mailbox of e failed in the call
FailedFor(c, e) == \E k \in c.failing : SameMailbox(k, e)

\* the mailboxes a call was bound to remove: listed, well-formed, and
\* the storage answered
Removable(c) ==
    { e \in Removed(c.notification) : WellFormed(e) /\ ~FailedFor(c, e) }

\* C21: a permanent bounce or a complaint leaves no Subscriber for a
\* listed valid address (the storage having answered the removal), and
\* every Subscriber whose mailbox is not listed is stored afterwards
\* exactly as before; the event stores nothing new.
C21_RemovalEvent ==
    [][ (apiCall'.op = "handle_notification" /\ Removed(apiCall'.notification) # {}) =>
            /\ \A e \in Removable(apiCall') :
                   \A it \in subscribers' : ~SameMailbox(it.email, e)
            /\ \A it \in subscribers :
                   (\A e \in Removed(apiCall'.notification) : ~SameMailbox(it.email, e))
                       => it \in subscribers'
            /\ subscribers' \subseteq subscribers
      ]_vars

\* a permanent bounce listing one mailbox and a string that is no address
\* has deleted the mailbox's Subscriber and left the other one
C21_Witness ==
    /\ apiCall.op = "handle_notification"
    /\ apiCall.notification.event_type = "Bounce"
    /\ Removed(apiCall.notification) = { "b@x.io", "not-an-email" }
    /\ apiCall.removed = { "b@x.io" }
    /\ \E it \in subscribers : it.email = "a@x.io"

\* an event the handler ignores: a bounce that is not permanent, or an
\* event that is neither a bounce nor a complaint
Ignored(notification) ==
    \/ /\ notification.event_type = "Bounce"
       /\ notification.bounce # None
       /\ Unwrap(notification.bounce).bounce_type # "Permanent"
    \/ notification.event_type \notin { "Bounce", "Complaint" }

\* C22: for a bounce that is not permanent and for an event of another
\* type, handle_notification returns Ok and the Subscriber and pending
\* items are the same after the call as before it.
C22_IgnoredEvent ==
    [][ (apiCall'.op = "handle_notification" /\ Ignored(apiCall'.notification)) =>
            /\ apiCall'.ret = Ok(<<>>)
            /\ subscribers' = subscribers
            /\ pending' = pending
      ]_vars

\* a transient bounce naming a subscribed mailbox has returned Ok and the
\* mailbox is still subscribed
C22_Witness ==
    /\ apiCall.op = "handle_notification"
    /\ apiCall.notification.event_type = "Bounce"
    /\ Ignored(apiCall.notification)
    /\ apiCall.ret = Ok(<<>>)
    /\ \E it \in subscribers :
           \E i \in 1..Len(Unwrap(apiCall.notification.bounce).bounced_recipients) :
               SameMailbox(it.email, Unwrap(apiCall.notification.bounce).bounced_recipients[i])

\* the Subscriber items of the mailbox of e
OfMailbox(table, e) == { it \in table : SameMailbox(it.email, e) }

\* C23: in a removal event that lists an address that is skipped (a
\* string that is no address, or an address whose removal fails in the
\* storage), handle_notification still returns Ok, the Subscriber of a
\* failed removal stays as it was, and no Subscriber is left for any
\* other listed address, wherever it stands in the list.
C23_SkippedIndependently ==
    [][ ( /\ apiCall'.op = "handle_notification"
          /\ \E e \in Removed(apiCall'.notification) :
                 ~WellFormed(e) \/ FailedFor(apiCall', e) ) =>
            /\ apiCall'.ret = Ok(<<>>)
            /\ \A e \in Removed(apiCall'.notification) :
                   IF WellFormed(e) /\ ~FailedFor(apiCall', e)
                   THEN OfMailbox(subscribers', e) = {}
                   ELSE WellFormed(e) =>
                            OfMailbox(subscribers', e) = OfMailbox(subscribers, e)
      ]_vars

\* a complaint listing a string that is no address, a mailbox whose
\* removal failed and a third mailbox: the third one was deleted, the
\* second one is still subscribed, and the call returned Ok
C23_Witness ==
    /\ apiCall.op = "handle_notification"
    /\ apiCall.notification.event_type = "Complaint"
    /\ Removed(apiCall.notification) = { "not-an-email", "a@x.io", "b@x.io" }
    /\ apiCall.failing = { "a@x.io" }
    /\ apiCall.removed = { "b@x.io" }
    /\ OfMailbox(subscribers, "a@x.io") # {}
    /\ apiCall.ret = Ok(<<>>)

\* an event that declares a type and lacks the payload of that type
MissingPayload(notification) ==
    \/ notification.event_type = "Bounce" /\ notification.bounce = None
    \/ notification.event_type = "Complaint" /\ notification.complaint = None

\* C24: for a Bounce event without the bounce payload and for a Complaint
\* event without the complaint payload, handle_notification returns an
\* error and the stored items are the same after the call as before it.
C24_MissingPayload ==
    [][ (apiCall'.op = "handle_notification" /\ MissingPayload(apiCall'.notification)) =>
            /\ ~apiCall'.ret.ok
            /\ subscribers' = subscribers
            /\ pending' = pending
            /\ digests' = digests
      ]_vars

\* a Complaint event without its payload has returned an error while two
\* mailboxes are subscribed
C24_Witness ==
    /\ apiCall.op = "handle_notification"
    /\ apiCall.notification.event_type = "Complaint"
    /\ apiCall.notification.complaint = None
    /\ ~apiCall.ret.ok
    /\ Cardinality(subscribers) = 2

(***************************************************************************)
(* Properties of the request handlers.                                     *)
(***************************************************************************)
\* the strategy ids a subscription can name
KnownStrategyIds == { to_string(st) : st \in SubscribeStrategies }

\* a request the handlers must turn down on its face: a malformed email,
\* an unknown strategy id, an empty token, a filled honeypot field, a
\* missing captcha token or a captcha that did not pass
Rejected(c) ==
    \/ /\ c.op = "subscribe_post"
       /\ \/ c.req.website # ""
          \/ c.req.strategy \notin KnownStrategyIds
          \/ ~WellFormed(c.req.email)
          \/ c.req.turnstile_token = ""
          \/ c.captcha # Ok(TRUE)
    \/ /\ c.op = "verify_get"
       /\ ~WellFormed(c.email) \/ c.token = <<>>
    \/ /\ c.op \in { "unsubscribe_get", "unsubscribe_post" }
       /\ c.token = <<>>

IsHandlerCall(c) ==
    c.op \in { "subscribe_post", "verify_get", "unsubscribe_get", "unsubscribe_post" }

\* C25: a handler call for a request with a malformed email, an unknown
\* strategy id or an empty token, and a subscribe_post call with a filled
\* honeypot field or without a passed captcha, makes no call to the
\* Storage, sends no email, and leaves every stored item as it was.
C25_RejectedBeforeStorage ==
    [][ (IsHandlerCall(apiCall') /\ Rejected(apiCall')) =>
            /\ apiCall'.storage = <<>>
            /\ apiCall'.sent = <<>>
            /\ subscribers' = subscribers
            /\ pending' = pending
            /\ digests' = digests
      ]_vars

\* GET /api/verify with the address of a stored pending subscription and
\* no token has been answered with the error page without a Storage call
C25_Witness ==
    /\ apiCall.op = "verify_get"
    /\ apiCall.email = "A@x.io"
    /\ apiCall.token = <<>>
    /\ apiCall.storage = <<>>
    /\ apiCall.response = redirect("/verify-error.html")
    /\ \E p \in pending : SameMailbox(p.email, "A@x.io")

(***************************************************************************)
(* Properties of the scheduled handler.                                    *)
(***************************************************************************)
\* the build_digest call of a strategy in the run
Task(st) == batch.tasks[st]

\* the call made a Storage call that failed
FailedCall(task, call) ==
    \E i \in 1..Len(task.storage) : task.storage[i] = [ call |-> call, ok |-> FALSE ]

\* the digest items stored under (strategy, day of date)
DigestItems(table, st, date) ==
    { it \in table : it.PK = <<"DIGEST">> \o to_string(st) /\ it.SK = date \div 24 }

\* C26: a build_digest call whose fetch of the prior day's digest failed
\* has returned the error of the fetch, has made no other Storage call,
\* and nothing was written under its (strategy, date); a call whose save
\* failed has returned the error of the save and no digest; and no call
\* makes the same Storage call twice.
C26_StorageErrors ==
    batch.phase # "idle" =>
        \A st \in BatchStrategies :
            /\ FailedCall(Task(st), "fetch_digest") =>
                   /\ Task(st).ret = Some(Err("Failed to fetch digest"))
                   /\ Task(st).storage = <<[ call |-> "fetch_digest", ok |-> FALSE ]>>
                   /\ DigestItems(digests, st, batch.date)
                          = DigestItems(batch.before, st, batch.date)
            /\ FailedCall(Task(st), "save_digest") =>
                   /\ Task(st).ret = Some(Err("Failed to save digest"))
                   /\ Task(st).storage = <<[ call |-> "fetch_digest", ok |-> TRUE ],
                                           [ call |-> "save_digest", ok |-> FALSE ]>>
            /\ \A i, j \in 1..Len(Task(st).storage) :
                   Task(st).storage[i].call = Task(st).storage[j].call => i = j

\* in one run the fetch failed for one strategy and the save for another,
\* while the digest of the third one was stored
C26_Witness ==
    /\ batch.phase = "building"
    /\ FailedCall(Task(TopN(10)), "fetch_digest")
    /\ FailedCall(Task(OverPointThreshold(500)), "save_digest")
    /\ Task(OverPointThreshold(250)).pc = "done"
    /\ DigestItems(digests, OverPointThreshold(250), batch.date) # {}
    /\ DigestItems(digests, TopN(10), batch.date) = {}

\* build_digest run from its call to its return without another call in
\* between, the Storage answering as given
build_digest(table, strategy, date, posts, fetch_ok, save_ok) ==
    LET fetched == after_fetch(NewTask,
                               try_fetch_digest(table, to_string(strategy),
                                                Yesterday(date), fetch_ok))
    IN  IF fetched.pc = "done"
        THEN [ task |-> fetched, table |-> table ]
        ELSE LET selected == selected_posts(strategy, posts, fetched.yesterday_digest)
                 saved    == try_save_digest(table, to_string(strategy), date,
                                             selected, save_ok)
             IN  [ task  |-> after_save(fetched, saved.ret, selected),
                   table |-> saved.table ]

\* the orders in which the strategies of a run can be built one by one
Orders ==
    { o \in [ 1..Cardinality(BatchStrategies) -> BatchStrategies ] :
          \A i, j \in DOMAIN o : o[i] = o[j] => i = j }

\* the table left by the calls of the run made one after another in the
\* given order, each with the Storage answers its call got in the run
RECURSIVE OneAfterAnother(_, _)
OneAfterAnother(table, order) ==
    IF order = <<>> THEN table
    ELSE OneAfterAnother(
             build_digest(table, Head(order), batch.date, batch.posts,
                          ~FailedCall(Task(Head(order)), "fetch_digest"),
                          ~FailedCall(Task(Head(order)), "save_digest")).table,
             Tail(order))

\* every build_digest call of the run has returned
AllBuilt ==
    batch.phase # "idle" /\ \A st \in BatchStrategies : Task(st).pc = "done"

\* the digests stored are those the calls leave when made one by one, in
\* whatever order
AsOneAfterAnother ==
    AllBuilt => \A order \in Orders : digests = OneAfterAnother(batch.before, order)

\* C27: in a run that builds the digests of its strategies concurrently,
\* a step that changes the stored digests is the step of one call and
\* changes only the item of that call's (strategy, date); and when every
\* call has returned the stored digests are the ones left by making the
\* calls one after another, in any order.
C27_ConcurrentBuilds ==
    /\ [][ digests' # digests =>
               \E st \in BatchStrategies :
                   /\ batch'.tasks[st] # batch.tasks[st]
                   /\ \A other \in BatchStrategies \ { st } :
                          batch'.tasks[other] = batch.tasks[other]
                   /\ \A it \in (digests' \ digests) \cup (digests \ digests') :
                          /\ it.PK = <<"DIGEST">> \o to_string(st)
                          /\ it.SK = batch.date \div 24
      ]_vars
    /\ []AsOneAfterAnother

\* the second daily run has built its three digests, each call reading
\* the digest stored for its strategy the day before, and two calls were
\* in progress at the same time on the way
C27_Witness ==
    /\ AllBuilt
    /\ batch.date = 30
    /\ \A st \in BatchStrategies :
           /\ Task(st).yesterday_digest # None
           /\ Task(st).ret = Some(Ok(selected_posts(st, batch.posts,
                                                    Task(st).yesterday_digest)))
           /\ DigestItems(digests, st, batch.date) # {}
    /\ DigestItems(digests, TopN(10), batch.date)
           # DigestItems(digests, OverPointThreshold(500), batch.date)

\* C28: at every moment of a run at most ten sends are in flight, that
\* is, started by a call of mailer.send_digest that has not returned.
C28_BoundedSends ==
    Cardinality(batch.in_flight) <= 10

\* ten sends are in flight and none has ended, while a subscriber with a
\* digest to receive waits in the stream
C28_Witness ==
    /\ batch.phase = "sending"
    /\ Cardinality(batch.in_flight) = 10
    /\ batch.send_results = { [ email |-> "s04@x.io", result |-> Ok(<<>>) ] }
    /\ batch.queue # <<>>
    /\ Head(batch.queue).strategy \in DOMAIN batch.digests_by_strategy

\* the run has returned after listing its subscribers
SendsOver ==
    /\ batch.phase = "done"
    /\ batch.ret # Some(Err("Failed to query subscribers"))

\* a non-empty digest was collected for the strategy of the stored item
HasDigest(it) ==
    \E st \in DOMAIN batch.digests_by_strategy :
        to_string(st) = it.strategy /\ batch.digests_by_strategy[st] # <<>>

\* the sends of the run that the mailer refused
FailedSends == { a \in batch.attempted : a.recipient \in batch.refused }

\* C29: when a run that listed its subscribers has returned, a send was
\* attempted for every subscriber whose strategy has a non-empty digest,
\* whichever other sends failed, one outcome was collected for every
\* subscriber, and the handler has returned an error exactly when a send
\* failed.
C29_AllSendsAttempted ==
    SendsOver =>
        /\ \A it \in subscribers :
               HasDigest(it) => \E a \in batch.attempted : a.recipient = it.email
        /\ \A it \in subscribers :
               Cardinality({ r \in batch.send_results : r.email = it.email }) = 1
        /\ \A r \in batch.send_results :
               ~r.result.ok <=> \E a \in FailedSends : a.recipient = r.email
        /\ ~Unwrap(batch.ret).ok <=> FailedSends # {}

\* the mailer refused the first and the last subscriber of the list: the
\* one in between was sent their digest all the same, and the handler
\* has returned the error
C29_Witness ==
    /\ SendsOver
    /\ batch.refused = { "a@x.io", "c@x.io" }
    /\ { a.recipient : a \in batch.attempted } = { "a@x.io", "b@x.io", "c@x.io" }
    /\ [ email |-> "b@x.io", result |-> Ok(<<>>) ] \in batch.send_results
    /\ Cardinality(FailedSends) = 2
    /\ batch.ret = Some(Err("Some emails failed to send."))

\* the build_digest call of the run for the strategy of a stored item
TaskOf(it) ==
    Task(CHOOSE st \in BatchStrategies : to_string(st) = it.strategy)

\* the call returned a digest that holds a post
BuiltNonEmpty(task) ==
    task.ret # None /\ Unwrap(task.ret).ok /\ Unwrap(task.ret).val # <<>>

\* C30: in a run, the subscribers that mailer.send_digest was called for
\* are subscribers whose strategy's build_digest call returned a digest
\* holding a post, and they are sent that digest; a subscriber whose
\* strategy's call failed or returned an empty digest is sent nothing,
\* their outcome is Ok, and they do not make the handler return an
\* error; and when the run has returned after listing its subscribers
\* every subscriber of a strategy whose call returned a digest holding a
\* post was sent it, whatever became of the calls of the other
\* strategies.
C30_SentOnlyBuiltDigests ==
    batch.phase \in { "sending", "done" } =>
        /\ \A a \in batch.attempted :
               \E it \in subscribers :
                   /\ it.email = a.recipient
                   /\ BuiltNonEmpty(TaskOf(it))
                   /\ a.posts = Unwrap(TaskOf(it).ret).val
        /\ \A it \in subscribers :
               ~BuiltNonEmpty(TaskOf(it)) =>
                   /\ \A a \in batch.attempted : a.recipient # it.email
                   /\ \A r \in batch.send_results : r.email = it.email => r.result.ok
        /\ SendsOver =>
               /\ \A it \in subscribers :
                      BuiltNonEmpty(TaskOf(it)) =>
                          \E a \in batch.attempted : a.recipient = it.email
               /\ batch.refused = {} => Unwrap(batch.ret).ok

\* one strategy's digest came out empty and the call of another failed:
\* their subscribers were skipped with an Ok outcome, the subscriber of
\* the third strategy was sent the digest, and the handler returned Ok
C30_Witness ==
    /\ SendsOver
    /\ Task(OverPointThreshold(500)).ret = Some(Ok(<<>>))
    /\ FailedCall(Task(OverPointThreshold(250)), "fetch_digest")
    /\ { a.recipient : a \in batch.attempted } = { "a@x.io" }
    /\ batch.send_results = { [ email |-> e, result |-> Ok(<<>>) ] :
                                  e \in { "a@x.io", "b@x.io", "c@x.io" } }
    /\ batch.ret = Some(Ok(<<>>))

(***************************************************************************)
(* Properties of the conversions.                                          *)
(***************************************************************************)
\* the canonical strings of the six configured strategies
CanonicalStrings ==
    { <<"T", "O", "P", "_", "N", "#", "1", "0">>,
      <<"T", "O", "P", "_", "N", "#", "2", "0">>,
      <<"T", "O", "P", "_", "N", "#", "5", "0">>,
      POINT_THRESHOLD_PREFIX \o <<"5", "0", "0">>,
      POINT_THRESHOLD_PREFIX \o <<"2", "5", "0">>,
      POINT_THRESHOLD_PREFIX \o <<"1", "0", "0">> }

\* the prefix of a strategy's kind
PrefixOf(strategy) ==
    IF strategy.kind = "TopN" THEN TOP_N_PREFIX ELSE POINT_THRESHOLD_PREFIX

\* the writings of a strategy that str::parse reads as its value: the
\* decimal digits, also behind a "+" or a zero
Writings(strategy) ==
    LET prefix == PrefixOf(strategy)
        value  == Decimal(strategy.value)
    IN  { prefix \o value, prefix \o <<"+">> \o value, prefix \o <<"0">> \o value }

\* C31: the string of a configured strategy is one of the six canonical
\* strings and parses to the strategy it was written from; a string that
\* parses at all parses to a configured strategy, of which it is a
\* writing, so that a string with another prefix or with a value that is
\* not configured is rejected with an error.
C31_StrategyRoundTrip ==
    /\ (conv.op = "to_string" /\ conv.strategy \in all) =>
           /\ conv.ret \in CanonicalStrings
           /\ conv.parsed = Ok(conv.strategy)
    /\ (conv.op = "to_string" /\ conv.strategy \notin all) => ~conv.parsed.ok
    /\ conv.op = "from_str" =>
           /\ conv.ret.ok <=> \E strategy \in all : conv.s \in Writings(strategy)
           /\ conv.ret.ok =>
                  /\ conv.ret.val \in all
                  /\ conv.s \in Writings(conv.ret.val)

\* the threshold 250 was written and read back
C31_Witness ==
    /\ conv.op = "to_string"
    /\ conv.strategy = OverPointThreshold(250)
    /\ conv.ret = POINT_THRESHOLD_PREFIX \o <<"2", "5", "0">>
    /\ conv.parsed = Ok(OverPointThreshold(250))

\* the document values none of whose integers is beyond a signed 64 bit
\* integer
RECURSIVE WithinI64(_)
WithinI64(value) ==
    CASE value.t = "Number" ->
             \/ value.k = "Float"
             \/ value.k = "PosInt" /\ AtMost(value.text, I64_MAX)
             \/ value.k = "NegInt" /\ AtMost(value.text, I64_MIN_MAGNITUDE)
      [] value.t = "Array"  -> \A i \in 1..Len(value.arr) : WithinI64(value.arr[i])
      [] value.t = "Object" -> \A k \in DOMAIN value.map : WithinI64(value.map[k])
      [] OTHER              -> TRUE

C32_IntegerReadAsFloat ==
    /\ conv.op = "json_to_av"
    /\ conv.json = PosInt(I64_MIN_MAGNITUDE)
    /\ conv.ret = AvN(I64_MIN_MAGNITUDE)
    /\ conv.back = Float(I64_MIN_MAGNITUDE)
    /\ conv.back # conv.json

\* what does hold: every value without an integer beyond i64 comes back
\* as it was
C32_RoundTripWithinI64 ==
    (conv.op = "json_to_av" /\ WithinI64(conv.json)) => conv.back = conv.json

(***************************************************************************)
(* Properties of the reads of stored subscribers.                          *)
(***************************************************************************)
\* a stored item that is no subscriber record: an attribute is missing or
\* its text is no email address, no configured strategy, no timestamp or
\* no token
Malformed(it) ==
    \/ \E name \in StoredAttributes : name \notin DOMAIN it
    \/ it.email \in NotEmails
    \/ it.strategy \notin { to_string(st) : st \in all }
    \/ it.subscribed_at < 0
    \/ it.unsubscribe_token = 0

\* the subscriber an item is the record of
RecordOf(it) ==
    [ email             |-> it.email,
      strategy          |-> CHOOSE st \in all : to_string(st) = it.strategy,
      subscribed_at     |-> it.subscribed_at,
      unsubscribe_token |-> it.unsubscribe_token ]

\* the items holding a token in the index
Indexed(token) ==
    { it \in subscribers : "unsubscribe_token" \in DOMAIN it /\ it.unsubscribe_token = token }

\* C33: a read that meets a malformed subscriber record returns an error:
\* get_all_subscribers when the partition holds one, get_subscriber_by_email
\* when the item of the email is one, get_subscriber_by_unsubscribe_token
\* when the item holding the token is one; a read that returns subscribers
\* returns the records as stored, none left out and none filled in.
C33_MalformedRecordIsError ==
    /\ scan.op = "returned" =>
           /\ (\E it \in subscribers : Malformed(it)) => ~scan.ret.ok
           /\ scan.ret.ok =>
                  /\ Len(scan.ret.val) = Cardinality(subscribers)
                  /\ Elems(scan.ret.val) = { RecordOf(it) : it \in subscribers }
    /\ lookup.op = "get_subscriber_by_email" =>
           \A it \in subscribers :
               it.SK = to_lowercase(lookup.email) =>
                   IF Malformed(it) THEN ~lookup.ret.ok
                   ELSE lookup.ret = Ok(Some(RecordOf(it)))
    /\ lookup.op = "get_subscriber_by_unsubscribe_token" =>
           \A it \in Indexed(lookup.token) :
               IF Malformed(it) THEN ~lookup.ret.ok
               ELSE lookup.ret = Ok(Some(RecordOf(it)))

\* a scan whose second page held a record without strategy ended in the
\* error, after the first page had been read
C33_Witness ==
    /\ scan.op = "returned"
    /\ scan.pages = 2
    /\ ~scan.ret.ok
    /\ \E it \in subscribers : it.SK = "b@x.io" /\ "strategy" \notin DOMAIN it
    /\ \E it \in subscribers : it.SK = "a@x.io" /\ ~Malformed(it)

(***************************************************************************)
(* Properties of the lifecycle of a subscriber.                            *)
(***************************************************************************)
\* C34 as stated: a verify_subscription call with the matching token for
\* an email that already has a Subscriber leaves that Subscriber's
\* strategy, subscribed_at and unsubscribe_token as they were.
C34_VerifyKeepsSubscriber ==
    [][ (ValidToken(verify') /\ ItemsOf(subscribers, verify'.email) # {}) =>
            ItemsOf(subscribers', verify'.email) = ItemsOf(subscribers, verify'.email)
      ]_vars

\* the call that has just returned removed Subscriber items
JustRemoved ==
    /\ apiCall.op \in { "remove_subscriber", "handle_notification" }
    /\ apiCall.removed # {}

\* C35 as stated, for the call that follows a removal: a
\* verify_subscription call made right after the Subscriber of its email
\* was removed, with no subscribe request in between, leaves the email
\* without Subscriber, whatever token it presents.
C35_RemovedStaysRemoved ==
    [][ ( /\ JustRemoved
          /\ apiCall'.op = "verify_subscription"
          /\ to_lowercase(apiCall'.email) \in apiCall.removed )
            => ItemsOf(subscribers', apiCall'.email) = {} ]_vars

(***************************************************************************)
(* Properties of requests served concurrently.                             *)
(***************************************************************************)
\* the Subscriber the subscribe request in progress has read was removed
\* since: by the remove_subscriber call that found the same Subscriber, or
\* by the notification handled last, and the items are as the removal left
\* them
RemovedSinceRead ==
    /\ running.subscribe.pc = "read"
    /\ running.subscribe.existing.val # None
    /\ \/ /\ running.remove.pc = "done"
          /\ running.remove.removed # {}
          /\ running.remove.found = running.subscribe.existing.val
          /\ running.remove.after = subscribers
       \/ /\ apiCall.op = "handle_notification"
          /\ to_lowercase(running.subscribe.email) \in apiCall.removed
    /\ ItemsOf(subscribers, running.subscribe.email) = {}

\* C36 as stated: when a removal of the Subscriber has completed between
\* the read and the write of a subscribe request for the same email, no
\* Subscriber exists for the email once the request has finished too.
C36_RemovalNotUndone ==
    [][ (RemovedSinceRead /\ running'.subscribe.pc = "done") =>
            ItemsOf(subscribers', running.subscribe.email) = {} ]_vars

\* C37 as stated: the items a remove_subscriber(token) call has deleted
\* held the presented token when they were deleted.
C37_DeletesPresentedToken ==
    running.remove.pc = "done" =>
        \A it \in running.remove.removed : it.unsubscribe_token = running.remove.token

(***************************************************************************)
(* Properties of a subscribe request whose email could not be sent.        *)
(***************************************************************************)
\* an accepted subscribe_post call whose email the mailer refused
MailFailed(c) == Accepted(c) /\ c.mailer = MailerError

\* C38: a subscribe_post call that passed every check and whose email
\* could not be sent answers the 500 response, and the write it made
\* before stays: for a subscribed email the Subscriber item with the
\* requested strategy and otherwise as it was, for any other email a
\* pending item with a new token and the requested strategy; the other
\* table is as it was.
C38_NoRollback ==
    [][ MailFailed(apiCall') =>
            /\ apiCall'.response = subscribe_500
            /\ apiCall'.sent = <<>>
            /\ IF ItemsOf(subscribers, apiCall'.req.email) # {}
               THEN /\ apiCall'.storage = <<"get_subscriber_by_email", "upsert_subscriber">>
                    /\ ItemsOf(subscribers', apiCall'.req.email)
                           = { [ it EXCEPT !.strategy = apiCall'.req.strategy ] :
                                   it \in ItemsOf(subscribers, apiCall'.req.email) }
                    /\ pending' = pending
               ELSE /\ apiCall'.storage
                           = <<"get_subscriber_by_email", "upsert_pending_subscription">>
                    /\ issued' = issued + 1
                    /\ \E p \in pending' :
                           /\ ItemsOf(pending', apiCall'.req.email) = { p }
                           /\ p.token = issued'
                           /\ p.strategy = apiCall'.req.strategy
                    /\ subscribers' = subscribers
      ]_vars

\* the 500 response was given to a request that replaced the pending
\* record of its email, and the new record is stored
C38_Witness ==
    /\ MailFailed(apiCall)
    /\ apiCall.response = subscribe_500
    /\ apiCall.storage = <<"get_subscriber_by_email", "upsert_pending_subscription">>
    /\ issued = 2
    /\ \E p \in pending : p.SK = to_lowercase(apiCall.req.email) /\ p.token = 2

(***************************************************************************)
(* Properties of the exclusion window.                                     *)
(***************************************************************************)
\* the ids of the digests stored for the call's strategy under a day
IdsOfDay(day) == UNION { Ids(it.posts) : it \in Stored(build.strategy, day) }

\* the candidate satisfies the rule of the call's strategy: it has the
\* points of the threshold, or fewer than n candidates outside the
\* prior-day digest stand before it in the order by points
SatisfiesRule(p) ==
    IF build.strategy.kind = "TopN"
    THEN Cardinality({ u \in Unsent : Before(build.posts[u], p) }) < build.strategy.value
    ELSE p.points >= build.strategy.value

\* C39: build_digest excludes the ids of the digest stored for the day
\* before its date and no others: every candidate outside that digest
\* that satisfies the rule of the strategy is returned, also when it is
\* in the digest stored for two days before.
C39_OneDayWindow ==
    build.pc = "returned" =>
        \A i \in 1..Len(build.posts) :
            LET p == build.posts[i]
            IN  p \in Elems(Returned) <=> (p.object_id \notin PriorIds /\ SatisfiesRule(p))

\* a post of the digest of two days before, absent from the digest stored
\* for the day before, was returned again
C39_Witness ==
    /\ build.pc = "returned"
    /\ Stored(build.strategy, datestamp(build.date) - 1) # {}
    /\ \E p \in Elems(Returned) :
           /\ p.object_id \in IdsOfDay(datestamp(build.date) - 2)
           /\ p.object_id \notin PriorIds

(***************************************************************************)
(* Properties of the size of a TopN digest.                                *)
(***************************************************************************)
\* the digest read for the day before, empty when none was stored
PriorDigest == IF build.yesterday_digest = None THEN <<>> ELSE Unwrap(build.yesterday_digest)

\* C40: a build_digest call with TopN(n), n any of the configured values,
\* on at least 2 * max_top_n candidates of distinct ids returns exactly n
\* posts; the prior-day digest it read, built by build_digest with the
\* same strategy, has at most n posts.
C40_ExactlyN ==
    (BuildKind("TopN") /\ Cardinality(Ids(build.posts)) >= 2 * max_top_n) =>
        /\ Len(PriorDigest) <= build.strategy.value
        /\ Len(Returned) = build.strategy.value

\* with n = max_top_n, 2 * max_top_n candidates and a prior-day digest of
\* n posts that are all candidates again, n posts were returned
C40_Witness ==
    /\ BuildKind("TopN")
    /\ build.strategy.value = max_top_n
    /\ Len(build.posts) = 2 * max_top_n
    /\ Len(PriorDigest) = max_top_n
    /\ Ids(PriorDigest) \subseteq Ids(build.posts)
    /\ Len(Returned) = max_top_n
====
